---- MODULE Spec2Model ----
(***************************************************************************)
(* State-machine model of rubin_ts_atdome:                                 *)
(*   - the ATDome CSC (src/src/atdome_csc.rs): lifecycle handlers, the     *)
(*     command queue and the control loop;                                 *)
(*   - the device session ATDomeModel (src/src/atdome_model.rs);           *)
(*   - the mock controller (src/src/mock_controller/mock_controller.rs).   *)
(* Each subsystem has its own specification over the shared variables.     *)
(***************************************************************************)
EXTENDS Integers, Sequences, FiniteSets, TLC

VARIABLES
    summary_state,        \* ATDome.summary_state
    telemetry_loop_task,  \* ATDome.telemetry_loop_task: 0 = None, n = handle of task n
    telemetry_tasks,      \* the runtime's telemetry tasks, in spawn order: "running" / "aborted"
    cmd_queue,            \* the mpsc channel command_sender -> command_receiver
    n_cmds,               \* number of commands received so far (their ids are 1..n_cmds)
    csc_pc,               \* "new" (constructed), "running" (start() done, run() awaited), "stopped"
    call,                 \* the last handler call: its input and what it returned
    csc_log,              \* what the CSC published and acknowledged, in order
    heartbeat,            \* the heartbeat task, the heartbeats it wrote, the state its write failed in
    \* The device session (ATDomeModel) and the controller it talks to.
    sess_pc,              \* cmd_task: "handshake", "idle", "read_status", "read_other", "failed"
    cmd_channel,          \* the mpsc channel cmd_channel -> cmd_receiver: the ids queued
    requests,             \* requests[id]: the command submitted as request id
    inbox,                \* inbox[id]: the oneshot channel of request id
    s2c,                  \* written by the session, not yet read by the controller
    c2s,                  \* written by the controller, not yet read by the session
    peer_open,            \* the controller has not closed the connection
    peer_greeted,         \* the controller has written its welcome and first prompt
    cur,                  \* the request the session took last (0: none yet)
    status_str,           \* the text accumulated by the GetStatus arm
    answers,              \* answers[id]: the status dump the controller wrote for request id
    prompt_seen,          \* requests during whose exchange the session has read a ">" (0: the welcome)
    link,                 \* the zero-byte reads of the loop at hand; malformed bytes were sent
    \* The mock controller (run_mock_controller) and its clients.
    mock_pc,              \* "accept", "read", "await", "returned", "panicked"
    sim_status,           \* the simulator task's status
    sim_rx,               \* the mpsc channel tx -> rx: the commands sent, not yet taken
    sim_reply,            \* the oneshot channel of the command sent last
    client_open,          \* the accepted client has not closed its connection
    client_out,           \* written by the client, not yet read by the controller
    n_clients,            \* clients accepted so far
    n_sent,               \* texts written by the client at hand
    wire,                 \* the socket calls of the connection at hand, in order
    sock_ok,              \* no prompt write on the connection at hand has failed
    sim_trace,            \* what the simulator did last: see InitTrace
    \* The codecs on their own.
    codec,                \* a command, its wire text and what the decoder made of it
    parse                 \* a status, the lines given to the parser and its result

csc_vars == <<summary_state, telemetry_loop_task, telemetry_tasks, cmd_queue,
              n_cmds, csc_pc, call, csc_log, heartbeat>>

sess_vars == <<sess_pc, cmd_channel, requests, inbox, s2c, c2s, peer_open,
               peer_greeted, cur, status_str, answers, prompt_seen>>

\* The session with the link it reads from.
link_vars == <<sess_vars, link>>

mock_vars == <<mock_pc, sim_status, sim_rx, sim_reply, client_open, client_out,
               n_clients, n_sent, wire, sock_ok, sim_trace>>

pure_vars == <<codec, parse>>

vars == <<csc_vars, link_vars, mock_vars, pure_vars>>

----------------------------------------------------------------------------
(* Bounds of the model.                                                    *)

\* Commands received by the CSC (or handler calls) in one behaviour.
MaxCmds == 4
\* Occupancy of the command queue explored (the channel itself holds 32).
MaxQueue == 2
\* Requests submitted to the device session in one behaviour.
MaxReqs == 3
\* cmd_channel_size, the capacity given to create_and_start.
ChannelSize == 2
\* Clients the mock controller accepts in one behaviour.
MaxClients == 2
\* Texts one client writes on its connection.
MaxSent == 2
\* The largest azimuth, in degrees, of the MoveAz commands encoded and decoded.
MaxAz == 3
\* The longest list of lines given to the status parser.
MaxLines == 30
\* Heartbeats counted in one behaviour.
MaxBeats == 2
\* Zero-byte reads counted in one read loop of the session.
MaxZeroReads == 2
\* Commands waiting in the simulator's inbox (the channel holds 100).
MaxPending == 2

----------------------------------------------------------------------------
(* The CSC: src/src/atdome_csc.rs                                          *)

State == {"Standby", "Disabled", "Enabled", "Fault", "Offline"}

LifecycleCommands == {"start", "enable", "disable", "standby", "exitControl"}

\* sal_info.get_command_names(): the lifecycle commands and the component's
\* own commands, of which one stands for all.
CommandNames == LifecycleCommands \cup {"moveAzimuth"}

\* The names handed to handle_command! in run().
HandledCommands == {"start", "standby", "enable", "disable"}

NoCall == [name |-> "none", from |-> "none", pub_ok |-> TRUE, kind |-> "none",
           code |-> 0, to |-> "none", events |-> <<>>,
           tasks_before |-> <<>>, handle_before |-> 0]

Csc == [summary_state |-> summary_state,
        telemetry_loop_task |-> telemetry_loop_task,
        telemetry_tasks |-> telemetry_tasks]

get_current_state(c) == c.summary_state

set_summary_state(c, new_state) == [c EXCEPT !.summary_state = new_state]

\* update_summary_state: the events it publishes (none when the write fails).
update_summary_state(c, pub_ok) ==
    IF pub_ok THEN <<[ev |-> "summaryState", arg |-> c.summary_state]>> ELSE <<>>

\* CommandAck::make_failed(.., 1, "Invalid state transition {from:?} -> {to}.")
make_failed(c, to) ==
    [csc |-> c, kind |-> "failed", code |-> 1, to |-> to,
     events |-> <<[ev |-> "ack", arg |-> "failed"]>>]

\* CommandAck::make_complete, returned after the events published so far.
make_complete(c, published) ==
    [csc |-> c, kind |-> "complete", code |-> 0, to |-> c.summary_state,
     events |-> published \o <<[ev |-> "ack", arg |-> "complete"]>>]

\* The ? on update_summary_state: the handler returns Err, no ack is built.
make_error(c) ==
    [csc |-> c, kind |-> "error", code |-> 0, to |-> c.summary_state,
     events |-> <<[ev |-> "error", arg |-> c.summary_state]>>]

\* task::spawn of the telemetry loop, its handle stored in telemetry_loop_task.
spawn_telemetry(c) ==
    [c EXCEPT !.telemetry_tasks = Append(@, "running"),
              !.telemetry_loop_task = Len(c.telemetry_tasks) + 1]

\* telemetry_loop_task.abort() when the handle is Some.
abort_telemetry(c) ==
    IF c.telemetry_loop_task # 0
    THEN [c EXCEPT !.telemetry_tasks[c.telemetry_loop_task] = "aborted"]
    ELSE c

\* do_start with the telemetry task spawned before the state is looked at.
do_start_spawn_first(c, pub_ok) ==
    LET c0 == spawn_telemetry(c)
    IN  IF get_current_state(c) # "Standby"
        THEN make_failed(c0, "Disable")
        ELSE LET c1 == set_summary_state(c0, "Disabled")
                 published == update_summary_state(c1, pub_ok)
             IN  IF pub_ok THEN make_complete(c1, published) ELSE make_error(c1)

do_start(c, pub_ok) ==
    IF get_current_state(c) # "Standby"
    THEN make_failed(c, "Disable")
    ELSE LET c1 == set_summary_state(spawn_telemetry(c), "Disabled")
             published == update_summary_state(c1, pub_ok)
         IN  IF pub_ok THEN make_complete(c1, published) ELSE make_error(c1)

\* do_disable that leaves the telemetry task alone.
do_disable_keeps_task(c, pub_ok) ==
    IF get_current_state(c) # "Enabled"
    THEN make_failed(c, "Disable")
    ELSE LET c1 == set_summary_state(c, "Disabled")
             published == update_summary_state(c1, pub_ok)
         IN  IF pub_ok THEN make_complete(c1, published) ELSE make_error(c1)

do_disable(c, pub_ok) ==
    IF get_current_state(c) # "Enabled"
    THEN make_failed(c, "Disable")
    ELSE LET c1 == set_summary_state(c, "Disabled")
             published == update_summary_state(c1, pub_ok)
         IN  IF pub_ok THEN make_complete(abort_telemetry(c1), published)
                       ELSE make_error(c1)

\* do_enable that publishes before it sets the new state.
do_enable_publish_first(c, pub_ok) ==
    IF get_current_state(c) # "Disabled"
    THEN make_failed(c, "Enabled")
    ELSE LET published == update_summary_state(c, pub_ok)
             c1 == set_summary_state(c, "Enabled")
         IN  IF pub_ok THEN make_complete(c1, published) ELSE make_error(c1)

do_enable(c, pub_ok) ==
    IF get_current_state(c) # "Disabled"
    THEN make_failed(c, "Enabled")
    ELSE LET c1 == set_summary_state(c, "Enabled")
             published == update_summary_state(c1, pub_ok)
         IN  IF pub_ok THEN make_complete(c1, published) ELSE make_error(c1)

\* do_standby that also admits Enabled.
do_standby_from_enabled(c, pub_ok) ==
    IF get_current_state(c) \notin {"Fault", "Disabled", "Enabled"}
    THEN make_failed(c, "Standby")
    ELSE LET c1 == set_summary_state(c, "Standby")
             published == update_summary_state(c1, pub_ok)
         IN  IF pub_ok THEN make_complete(c1, published) ELSE make_error(c1)

do_standby(c, pub_ok) ==
    IF get_current_state(c) \notin {"Fault", "Disabled"}
    THEN make_failed(c, "Standby")
    ELSE LET c1 == set_summary_state(c, "Standby")
             published == update_summary_state(c1, pub_ok)
         IN  IF pub_ok THEN make_complete(c1, published) ELSE make_error(c1)

do_exit_control(c, pub_ok) ==
    IF get_current_state(c) # "Standby"
    THEN make_failed(c, "Offline")
    ELSE LET c1 == set_summary_state(c, "Offline")
             published == update_summary_state(c1, pub_ok)
         IN  IF pub_ok THEN make_complete(c1, published) ELSE make_error(c1)

\* The handler of a lifecycle command.
Handler(name, c, pub_ok) ==
    CASE name = "start"       -> do_start(c, pub_ok)
      [] name = "enable"      -> do_enable(c, pub_ok)
      [] name = "disable"     -> do_disable(c, pub_ok)
      [] name = "standby"     -> do_standby(c, pub_ok)
      [] name = "exitControl" -> do_exit_control(c, pub_ok)

\* The events of command id, as they enter csc_log.
Logged(id, name, events) ==
    [i \in 1..Len(events) |->
        [id |-> id, name |-> name, ev |-> events[i].ev, arg |-> events[i].arg]]

\* The record kept of a handler call.
CallOf(name, c, pub_ok, out) ==
    [name |-> name, from |-> c.summary_state, pub_ok |-> pub_ok,
     kind |-> out.kind, code |-> out.code, to |-> out.to, events |-> out.events,
     tasks_before |-> c.telemetry_tasks, handle_before |-> c.telemetry_loop_task]

\* The CSC's fields after a handler returned out.
Apply(out) ==
    /\ summary_state' = out.csc.summary_state
    /\ telemetry_loop_task' = out.csc.telemetry_loop_task
    /\ telemetry_tasks' = out.csc.telemetry_tasks

\* ATDome::new: heartbeat_task is None.
NoHeartbeat == [task |-> "none", beats |-> 0, failed_in |-> "none"]

InitCsc ==
    /\ summary_state = "Standby"
    /\ telemetry_loop_task = 0
    /\ telemetry_tasks = <<>>
    /\ cmd_queue = <<>>
    /\ n_cmds = 0
    /\ csc_pc = "new"
    /\ call = NoCall
    /\ csc_log = <<>>
    /\ heartbeat = NoHeartbeat

----------------------------------------------------------------------------
(* The handlers driven directly, one call per step.                        *)

CallHandler(name, pub_ok) ==
    /\ n_cmds < MaxCmds
    /\ LET out == Handler(name, Csc, pub_ok)
       IN  /\ Apply(out)
           /\ call' = CallOf(name, Csc, pub_ok, out)
           /\ csc_log' = csc_log \o Logged(n_cmds + 1, name, out.events)
    /\ n_cmds' = n_cmds + 1
    /\ UNCHANGED <<cmd_queue, csc_pc, heartbeat>>

HandlerNext ==
    \E name \in LifecycleCommands, pub_ok \in BOOLEAN : CallHandler(name, pub_ok)

----------------------------------------------------------------------------
(* The CSC as it runs: start(), the command reader tasks and run().        *)

\* start(): publishes the initial summary state, then spawns the reader tasks.
csc_start(pub_ok) ==
    /\ csc_pc = "new"
    /\ IF pub_ok
       THEN /\ csc_log' = csc_log \o
                    Logged(0, "start()", update_summary_state(Csc, pub_ok))
            /\ csc_pc' = "running"
            /\ heartbeat' = [heartbeat EXCEPT !.task = "running"]
       ELSE /\ csc_log' = csc_log
            /\ csc_pc' = "failed"
            /\ heartbeat' = heartbeat
    /\ UNCHANGED <<summary_state, telemetry_loop_task, telemetry_tasks,
                   cmd_queue, n_cmds, call>>

\* A reader task: process_command() returned a command, which is sent to the
\* command queue (the send waits while the queue is full).
ReadCommand(name) ==
    /\ csc_pc \in {"running", "stopped"}
    /\ n_cmds < MaxCmds
    /\ Len(cmd_queue) < MaxQueue
    /\ cmd_queue' = Append(cmd_queue, [id |-> n_cmds + 1, name |-> name])
    /\ n_cmds' = n_cmds + 1
    /\ UNCHANGED <<summary_state, telemetry_loop_task, telemetry_tasks,
                   csc_pc, call, csc_log, heartbeat>>

\* One turn of run() on a command that handle_command! names: the handler is
\* awaited and the ack it returns is sent on the ack channel. A handler that
\* returns Err has built no ack; whether run() then goes on or returns the
\* error is the macro's choice (on_err).
RunHandled(pub_ok, on_err) ==
    /\ csc_pc = "running"
    /\ cmd_queue # <<>>
    /\ Head(cmd_queue).name \in HandledCommands
    /\ LET id == Head(cmd_queue).id
           name == Head(cmd_queue).name
           out == Handler(name, Csc, pub_ok)
           sent == IF out.kind = "error" THEN <<>>
                   ELSE <<[ev |-> "ack_sent", arg |-> out.kind]>>
       IN  /\ Apply(out)
           /\ call' = CallOf(name, Csc, pub_ok, out)
           /\ csc_log' = csc_log \o Logged(id, name, out.events \o sent)
           /\ csc_pc' = IF out.kind = "error" THEN on_err ELSE "running"
    /\ cmd_queue' = Tail(cmd_queue)
    /\ UNCHANGED <<n_cmds, heartbeat>>

\* One turn of run() on any other command name: no handler of this component
\* is called; the macro either drops the command or acknowledges it as failed.
RunUnhandled(nack) ==
    /\ csc_pc = "running"
    /\ cmd_queue # <<>>
    /\ Head(cmd_queue).name \notin HandledCommands
    /\ LET id == Head(cmd_queue).id
           name == Head(cmd_queue).name
           sent == IF nack THEN <<[ev |-> "ack_sent", arg |-> "failed"]>> ELSE <<>>
       IN  /\ call' = [NoCall EXCEPT !.name = name, !.from = summary_state,
                                     !.kind = "unhandled", !.to = summary_state,
                                     !.events = sent,
                                     !.tasks_before = telemetry_tasks,
                                     !.handle_before = telemetry_loop_task]
           /\ csc_log' = csc_log \o Logged(id, name, sent)
    /\ cmd_queue' = Tail(cmd_queue)
    /\ UNCHANGED <<summary_state, telemetry_loop_task, telemetry_tasks,
                   n_cmds, csc_pc, heartbeat>>

\* A heartbeat task whose failed write puts the CSC in Fault.
Beat_faults(write_ok) ==
    /\ heartbeat.task = "running"
    /\ heartbeat.beats < MaxBeats
    /\ heartbeat' = IF write_ok
                    THEN [heartbeat EXCEPT !.beats = @ + 1]
                    ELSE [heartbeat EXCEPT !.task = "finished",
                                           !.failed_in = summary_state]
    /\ summary_state' = IF write_ok THEN summary_state ELSE "Fault"
    /\ UNCHANGED <<telemetry_loop_task, telemetry_tasks,
                   cmd_queue, n_cmds, csc_pc, call, csc_log>>

\* A heartbeat task that goes on after a failed write.
Beat_goes_on(write_ok) ==
    /\ heartbeat.task = "running"
    /\ heartbeat.beats < MaxBeats
    /\ heartbeat' = IF write_ok
                    THEN [heartbeat EXCEPT !.beats = @ + 1]
                    ELSE [heartbeat EXCEPT !.failed_in = summary_state]
    /\ UNCHANGED <<summary_state, telemetry_loop_task, telemetry_tasks,
                   cmd_queue, n_cmds, csc_pc, call, csc_log>>

\* One turn of the heartbeat task's loop: the heartbeat is written, and the
\* loop sleeps and goes on, or breaks when the write failed.
Beat(write_ok) ==
    /\ heartbeat.task = "running"
    /\ heartbeat.beats < MaxBeats
    /\ heartbeat' = IF write_ok
                    THEN [heartbeat EXCEPT !.beats = @ + 1]
                    ELSE [heartbeat EXCEPT !.task = "finished",
                                           !.failed_in = summary_state]
    /\ UNCHANGED <<summary_state, telemetry_loop_task, telemetry_tasks,
                   cmd_queue, n_cmds, csc_pc, call, csc_log>>

CscNext ==
    \/ \E pub_ok \in BOOLEAN : csc_start(pub_ok)
    \/ \E name \in CommandNames : ReadCommand(name)
    \/ \E pub_ok \in BOOLEAN, on_err \in {"running", "stopped"} :
            RunHandled(pub_ok, on_err)
    \/ \E nack \in BOOLEAN : RunUnhandled(nack)
    \/ \E write_ok \in BOOLEAN : Beat(write_ok)


----------------------------------------------------------------------------
(* The lifecycle table of the specification (section 4.G).                 *)

TableSource(name) ==
    CASE name = "start"       -> {"Standby"}
      [] name = "enable"      -> {"Disabled"}
      [] name = "disable"     -> {"Enabled"}
      [] name = "standby"     -> {"Disabled", "Fault"}
      [] name = "exitControl" -> {"Standby"}
      [] OTHER                -> {}

TableTarget(name) ==
    CASE name = "start"       -> "Disabled"
      [] name = "enable"      -> "Enabled"
      [] name = "disable"     -> "Disabled"
      [] name = "standby"     -> "Standby"
      [] name = "exitControl" -> "Offline"
      [] OTHER                -> "none"

Called == call.name \in LifecycleCommands /\ call.kind # "unhandled"

Succeeded == call.kind = "complete" /\ summary_state = TableTarget(call.name)

Publishes(events, state) ==
    \E i \in 1..Len(events) : events[i] = [ev |-> "summaryState", arg |-> state]

\* C1 as stated: a lifecycle command succeeds (complete ack and the state of
\* the table) exactly when the state it is issued in is its listed source.
C1_SucceedsExactlyFromSource ==
    Called => (Succeeded <=> call.from \in TableSource(call.name))

\* C1, amended: a lifecycle command given to its handler is acknowledged
\* complete exactly when the state it is issued in is its listed source and
\* the summaryState publication succeeds, and the state is then the listed
\* target; issued in any other state, Offline included, it is acknowledged
\* failed and the state stays as it was.
C1_LifecycleTable ==
    Called =>
        /\ call.kind = "complete" <=>
              (call.from \in TableSource(call.name) /\ call.pub_ok)
        /\ call.kind = "complete" => summary_state = TableTarget(call.name)
        /\ call.from \notin TableSource(call.name) =>
              (call.kind = "failed" /\ summary_state = call.from)

\* A command rejected in Offline, reached through a successful exitControl.
C1_Witness ==
    /\ Called /\ call.from = "Offline" /\ call.kind = "failed"
    /\ \E i \in 1..Len(csc_log) :
          /\ csc_log[i].name = "exitControl"
          /\ csc_log[i].ev = "ack" /\ csc_log[i].arg = "complete"

\* C2: a lifecycle command issued in a state that is not an admitted source is
\* answered with a failed ack whose result code is not zero; the summary state
\* is unchanged, no summaryState event is published and no telemetry task is
\* created or aborted.
C2_RejectionLeavesAllUntouched ==
    (Called /\ call.from \notin TableSource(call.name)) =>
        /\ call.kind = "failed" /\ call.code # 0
        /\ summary_state = call.from
        /\ \A i \in 1..Len(call.events) : call.events[i].ev # "summaryState"
        /\ telemetry_tasks = call.tasks_before
        /\ telemetry_loop_task = call.handle_before

\* start rejected in Enabled, while the telemetry task of the first start runs.
C2_Witness ==
    /\ Called /\ call.name = "start" /\ call.from = "Enabled"
    /\ call.kind = "failed"
    /\ telemetry_tasks = <<"running">>

\* C4: whenever a handler returns a complete ack, the summaryState event that
\* carries the new state was published before that ack was made, and nothing
\* was published after it.
C4_PublishedBeforeComplete ==
    (Called /\ call.kind = "complete") =>
        /\ Len(call.events) = 2
        /\ call.events[1] = [ev |-> "summaryState", arg |-> summary_state]
        /\ call.events[2] = [ev |-> "ack", arg |-> "complete"]

\* enable acknowledged complete in Disabled.
C4_Witness ==
    /\ Called /\ call.name = "enable" /\ call.kind = "complete"
    /\ summary_state = "Enabled"

\* The commands run() has taken off the queue.
Taken == {id \in 1..n_cmds : \A i \in 1..Len(cmd_queue) : cmd_queue[i].id # id}

AcksSent(id) ==
    Cardinality({i \in 1..Len(csc_log) :
                    csc_log[i].id = id /\ csc_log[i].ev = "ack_sent"})

\* C3 as stated: every command taken off the command queue is acknowledged
\* exactly once, complete or failed, whatever its name and the current state.
C3_ExactlyOneAck == \A id \in Taken : AcksSent(id) = 1

\* C5 as stated: each of the five lifecycle commands taken off the queue is
\* dispatched to its handler, and exitControl taken in Standby moves the CSC
\* to Offline and publishes Offline.
C5_AllFiveDispatched ==
    call.name \in LifecycleCommands =>
        /\ call.kind # "unhandled"
        /\ (call.name = "exitControl" /\ call.from = "Standby" /\ call.pub_ok) =>
              (summary_state = "Offline" /\ Publishes(call.events, "Offline"))
----------------------------------------------------------------------------
(* Text. A text is a sequence of one-character strings.                    *)

Digit == {"0", "1", "2", "3", "4", "5", "6", "7", "8", "9"}

DigitVal(ch) ==
    CASE ch = "0" -> 0 [] ch = "1" -> 1 [] ch = "2" -> 2 [] ch = "3" -> 3
      [] ch = "4" -> 4 [] ch = "5" -> 5 [] ch = "6" -> 6 [] ch = "7" -> 7
      [] ch = "8" -> 8 [] ch = "9" -> 9

DigitChar(d) == <<"0", "1", "2", "3", "4", "5", "6", "7", "8", "9">>[d + 1]

\* The length of the run of digits of t that starts at position i.
DigitRun(t, i) ==
    LET ends == {k \in i..(Len(t) + 1) : \A j \in i..(k - 1) : t[j] \in Digit}
    IN  (CHOOSE k \in ends : \A l \in ends : l <= k) - i

\* t has pat at position i.
HasAt(t, pat, i) ==
    /\ i >= 1
    /\ i + Len(pat) - 1 <= Len(t)
    /\ \A j \in 1..Len(pat) : t[i + j - 1] = pat[j]

\* str::contains, Regex::is_match of a literal pattern.
Contains(t, pat) == \E i \in 1..(Len(t) + 1) : HasAt(t, pat, i)

\* The first position of pat in t (t contains pat).
FirstAt(t, pat) ==
    CHOOSE i \in 1..(Len(t) + 1) :
        HasAt(t, pat, i) /\ \A j \in 1..(i - 1) : ~HasAt(t, pat, j)

\* The decimal digits of a natural number, as Display prints them.
RECURSIVE NatText(_)
NatText(n) == IF n < 10 THEN <<DigitChar(n)>> ELSE Append(NatText(n \div 10), DigitChar(n % 10))

\* The value of a text of digits (short enough for the model's integers).
RECURSIVE NatValue(_)
NatValue(t) ==
    IF t = <<>> THEN 0
    ELSE 10 * NatValue(SubSeq(t, 1, Len(t) - 1)) + DigitVal(t[Len(t)])

\* A text of digits without its leading zeros ("0" for all zeros).
RECURSIVE StripZeros(_)
StripZeros(t) ==
    IF Len(t) > 1 /\ t[1] = "0" THEN StripZeros(Tail(t)) ELSE t

\* a < b for two texts of digits of the same length.
RECURSIVE DigitsLess(_, _)
DigitsLess(a, b) ==
    IF a = <<>> THEN FALSE
    ELSE IF a[1] # b[1] THEN DigitVal(a[1]) < DigitVal(b[1])
    ELSE DigitsLess(Tail(a), Tail(b))

\* a <= b for two texts of digits without leading zeros.
NumLeq(a, b) ==
    \/ Len(a) < Len(b)
    \/ Len(a) = Len(b) /\ (a = b \/ DigitsLess(a, b))

----------------------------------------------------------------------------
(* Numbers. An f32 is modelled by its value in hundredths (12 is 0.12), a  *)
(* u8 by its value, a u64 or usize by its decimal digits.                  *)

Hundredths == 10 * 10

Ok(v) == [ok |-> TRUE, v |-> v]
Err == [ok |-> FALSE, v |-> 0]

\* format!("{}", x) of an f32: the shortest decimal text, "-" for a negative.
F32Text(x) ==
    LET a == IF x < 0 THEN -x ELSE x
        whole == NatText(a \div Hundredths)
        frac == a % Hundredths
        tail == IF frac = 0 THEN <<>>
                ELSE IF frac % 10 = 0 THEN <<".", DigitChar(frac \div 10)>>
                ELSE <<".", DigitChar(frac \div 10), DigitChar(frac % 10)>>
    IN  (IF x < 0 THEN <<"-">> ELSE <<>>) \o whole \o tail

\* format!("{:03}", x) of a u8.
Pad3(x) ==
    LET t == NatText(x)
    IN  IF Len(t) = 1 THEN <<"0", "0">> \o t ELSE IF Len(t) = 2 THEN <<"0">> \o t ELSE t

\* str::parse::<f32> of a text digits [. digits]; the empty text is an error.
ParseF32(t) ==
    IF t = <<>> THEN Err
    ELSE LET n == DigitRun(t, 1)
             whole == NatValue(SubSeq(t, 1, n))
             frac == IF n < Len(t) THEN SubSeq(t, n + 2, Len(t)) ELSE <<>>
             f1 == IF Len(frac) >= 1 THEN DigitVal(frac[1]) ELSE 0
             f2 == IF Len(frac) >= 2 THEN DigitVal(frac[2]) ELSE 0
         IN  Ok(whole * Hundredths + 10 * f1 + f2)

U8Max == 255

\* A conversion to u8 that wraps around instead of failing.
ParseU8_wrapping(t) ==
    Ok(NatValue(StripZeros(t)) % (U8Max + 1))

\* str::parse::<u8> of a text of digits.
ParseU8(t) ==
    LET d == StripZeros(t)
    IN  IF Len(d) <= 3 /\ NatValue(d) <= U8Max THEN Ok(NatValue(d)) ELSE Err

U64MaxText == <<"1", "8", "4", "4", "6", "7", "4", "4", "0", "7",
                "3", "7", "0", "9", "5", "5", "1", "6", "1", "5">>

\* str::parse::<u64> (and usize) of a text of digits.
ParseU64(t) ==
    LET d == StripZeros(t)
    IN  IF NumLeq(d, U64MaxText) THEN Ok(d) ELSE Err
----------------------------------------------------------------------------
(* Commands: src/src/atdome_model.rs, src/src/atdome_cmd_regex.rs          *)

Cmd(name) == [cmd |-> name, az |-> 0]
MoveAz(az) == [cmd |-> "MoveAz", az |-> az]
Unknown == Cmd("Unknown")
GetStatus == Cmd("GetStatus")
StopMotion == Cmd("StopMotion")

\* The decoder aborted: unwrap() of a failed parse.
Panic == Cmd("panic")

CRLF == <<"\r", "\n">>

\* ATDomeCmd::get_command
get_command(c) ==
    CASE c.cmd = "MoveAz"                  -> F32Text(c.az) \o <<" ", "M", "V">> \o CRLF
      [] c.cmd = "CloseShutter"            -> <<"S", "C">>
      [] c.cmd = "OpenShutter"             -> <<"S", "O">>
      [] c.cmd = "StopMotion"              -> <<"S", "T">>
      [] c.cmd = "HomeAzimuth"             -> <<"H", "M">>
      [] c.cmd = "OpenShutterDropoutDoor"  -> <<"D", "N">>
      [] c.cmd = "CloseShutterDropoutDoor" -> <<"U", "P">>
      [] c.cmd = "OpenShutterMainDoor"     -> <<"O", "P">>
      [] c.cmd = "CloseShutterMainDoor"    -> <<"C", "L">>
      [] c.cmd = "GetStatus"               -> <<"+">> \o CRLF
      [] c.cmd = "Unknown"                 -> <<>>

\* str::trim_end_matches("\r\n")
RECURSIVE trim_end_matches(_)
trim_end_matches(t) ==
    IF Len(t) >= 2 /\ HasAt(t, CRLF, Len(t) - 1)
    THEN trim_end_matches(SubSeq(t, 1, Len(t) - 2))
    ELSE t

\* The capture "az" of (?P<az>[0-9]*) MV at its leftmost match: the digits
\* that end where the first " MV" begins.
MoveAzCapture(t) ==
    LET p == FirstAt(t, <<" ", "M", "V">>)
        starts == {k \in 1..p : \A j \in k..(p - 1) : t[j] \in Digit}
        k == CHOOSE k \in starts : \A l \in starts : k <= l
    IN  SubSeq(t, k, p - 1)

\* The patterns of the RegexSet, in its order, MOVE_AZ_REGEX apart.
LiteralPatterns ==
    <<[pat |-> <<"S", "C">>, cmd |-> "CloseShutter"],
      [pat |-> <<"S", "O">>, cmd |-> "OpenShutter"],
      [pat |-> <<"S", "T">>, cmd |-> "StopMotion"],
      [pat |-> <<"H", "M">>, cmd |-> "HomeAzimuth"],
      [pat |-> <<"D", "N">>, cmd |-> "OpenShutterDropoutDoor"],
      [pat |-> <<"U", "P">>, cmd |-> "CloseShutterDropoutDoor"],
      [pat |-> <<"O", "P">>, cmd |-> "OpenShutterMainDoor"],
      [pat |-> <<"C", "L">>, cmd |-> "CloseShutterMainDoor"],
      [pat |-> <<"+">>, cmd |-> "GetStatus"]>>

\* ATDomeCmdRegex::get_match_index: 0 for MOVE_AZ_REGEX, i for the i-th
\* literal pattern, -1 for None; the lowest index that matches.
get_match_index(t) ==
    IF Contains(t, <<" ", "M", "V">>) THEN 0
    ELSE LET hits == {i \in 1..Len(LiteralPatterns) : Contains(t, LiteralPatterns[i].pat)}
         IN  IF hits = {} THEN -1 ELSE CHOOSE i \in hits : \A j \in hits : i <= j

\* ATDomeCmdRegex::into_atdome_cmd
into_atdome_cmd(t) ==
    LET match_index == get_match_index(t)
    IN  IF match_index = -1 THEN Unknown
        ELSE IF match_index = 0
        THEN LET az_value == ParseF32(MoveAzCapture(t))
             IN  IF az_value.ok THEN MoveAz(az_value.v) ELSE Panic
        ELSE Cmd(LiteralPatterns[match_index].cmd)
----------------------------------------------------------------------------
(* Status: src/src/status.rs                                               *)

\* Status::default()
DefaultStatus ==
    [auto_shutdown_enabled |-> FALSE, az_home_switch |-> FALSE, az_pos |-> 0,
     azimuth_move_timeout |-> 0, cloud_sensor_enabled |-> FALSE, coast |-> 0,
     door_move_timeout |-> 0, dropout_door_encoder_closed |-> <<"0">>,
     dropout_door_encoder_opened |-> <<"0">>, dropout_door_pct |-> 0,
     dropout_timer |-> 0, encoder_counts |-> <<"0">>,
     encoder_counts_per_360 |-> <<"0">>, estop_active |-> FALSE,
     high_speed |-> 0, home_azimuth |-> 0, homed |-> FALSE,
     last_azimuth_goto |-> 0, main_door_encoder_closed |-> <<"0">>,
     main_door_encoder_opened |-> <<"0">>, main_door_pct |-> 0, move_code |-> 0,
     rain_sensor_enabled |-> FALSE, reversal_delay |-> 0, scb_link_ok |-> FALSE,
     sensor_code |-> <<"0">>, tolerance |-> 0, watchdog_timer |-> 0]

\* One line of text, "\n" after it when nl: the words before the value, the
\* number of spaces between them and the value, and the value's text.
Item(label, sep, val, nl) == [label |-> label, sep |-> sep, val |-> val, nl |-> nl]
Line(label, sep, val) == Item(label, sep, val, TRUE)

\* The prompt character ">".
Prompt == Item(">", 0, <<>>, FALSE)

\* Status::as_string: the 27 lines, each ended by "\n".
as_string(s) ==
    <<
      Line("MAIN CLOSED", 1, <<"0", "0", "0">>),
      Line("DROP CLOSED", 1, <<"0", "0", "0">>),
      Line("[OFF]", 1, <<"0", "0">>),
      Line("POSN", 1, F32Text(s.az_pos)),
      Line("--", 1, Pad3(s.move_code)),
      Line("Dome not homed", 0, <<>>),
      Line("Emergency Stop Active:", 1, <<"0">>),
      Line("Top Comm Link OK:", 4, <<"1">>),
      Line("Home Azimuth:", 1, <<"1", "0", ".", "0", "0">>),
      Line("High Speed (degrees):", 2, <<"5", ".", "0", "0">>),
      Line("Coast (degrees):", 1, <<"0", ".", "5", "0">>),
      Line("Tolerance (degrees):", 1, <<"1", ".", "0", "0">>),
      Line("Encoder Counts per 360:", 1, <<"4", "0", "1", "8", "1", "4", "3", "2", "3", "2">>),
      Line("Encoder Counts:", 2, <<"1", "1", "1", "6", "1", "5", "0", "8", "9">>),
      Line("Last Azimuth GoTo:", 1, F32Text(s.last_azimuth_goto)),
      Line("Azimuth Move Timeout (secs):", 1, <<"1", "2", "0">>),
      Line("Rain-Snow enabled:", 2, <<"1">>),
      Line("Cloud Sensor enabled:", 1, <<"1">>),
      Line("Watchdog Reset Time:", 1, <<"6", "0", "0">>),
      Line("Dropout Timer:", 1, <<"5">>),
      Line("Reverse Delay:", 1, <<"4">>),
      Line("Main Door Encoder Closed:", 1, <<"1", "1", "8", "4", "4", "9", "1", "8", "1", "4", "7", "8">>),
      Line("Main Door Encoder Opened:", 1, <<"8", "2", "8", "7", "6", "1", "6", "3", "8", "8">>),
      Line("Dropout Encoder Closed:", 1, <<"5", "6", "6", "9", "7", "7", "6", "5", "7", "8">>),
      Line("Dropout Encoder Opened:", 1, <<"5", "7", "1", "0", "9", "9", "6", "1", "8", "4">>),
      Line("Door Move Timeout (secs):", 1, <<"3", "6", "0">>),
      Line("Dome has been homed: False", 0, <<>>)
    >>

----------------------------------------------------------------------------
(* StatusParser: src/src/status_parser.rs                                  *)

\* What each line's regex accepts before the captured value: the literal
\* words (for [A-Z]+ and .+ the words the controller is known to send).
MAIN == {"MAIN CLOSED", "MAIN SHUT", "MAIN OPEN"}
DROP == {"DROP CLOSED", "DROP SHUT", "DROP OPEN"}
AUTO_SHUTDOWN == {"[ON]", "[OFF]"}
AZ_POS_MATCH == {"POSN", "HOME"}
MOVE_CODE == {"RL", "RR", "--"}
AZ_HOMED == {"Dome not homed", "Dome homed"}
ESTOP_ACTIVE == {"Emergency Stop Active:"}
SCB_LINK_OK == {"Top Comm Link OK:"}
HOME_AZIMUTH == {"Home Azimuth:"}
HIGH_SPEED == {"High Speed (degrees):"}
COAST == {"Coast (degrees):"}
TOLERANCE == {"Tolerance (degrees):"}
ENCODER_COUNTS_PER_360 == {"Encoder Counts per 360:"}
ENCODER_COUNTS == {"Encoder Counts:"}
LAST_AZIMUTH_GOTO == {"Last Azimuth GoTo:"}
AZIMUTH_MOVE_TIMEOUT == {"Azimuth Move Timeout (secs):"}
RAIN_SENSOR_ENABLED == {"Rain-Snow enabled:"}
CLOUD_SENSOR_ENABLED == {"Cloud Sensor enabled:"}
WATCHDOG_TIMER == {"Watchdog Reset Time:"}
DROPOUT_TIMER == {"Dropout Timer:"}
REVERSAL_DELAY == {"Reverse Delay:"}
MAIN_DOOR_ENCODER_CLOSED == {"Main Door Encoder Closed:"}
MAIN_DOOR_ENCODER_OPENED == {"Main Door Encoder Opened:"}
DROPOUT_DOOR_ENCODER_CLOSED == {"Dropout Encoder Closed:"}
DROPOUT_DOOR_ENCODER_OPENED == {"Dropout Encoder Opened:"}
DOOR_MOVE_TIMEOUT == {"Door Move Timeout (secs):"}

\* (\d+) at the start of a value: its leading digits (empty: no match).
CapInt(val) == SubSeq(val, 1, DigitRun(val, 1))

\* (\d) at the start of a value.
CapDigit(val) == IF DigitRun(val, 1) >= 1 THEN <<val[1]>> ELSE <<>>

\* (\d*\.?\d+) at the start of a value: digits, then a point followed by
\* digits when there is one; else the leading digits.
CapFloat(val) ==
    LET n == DigitRun(val, 1)
    IN  IF Len(val) >= n + 2 /\ val[n + 1] = "." /\ val[n + 2] \in Digit
        THEN SubSeq(val, 1, n + 1 + DigitRun(val, n + 2))
        ELSE SubSeq(val, 1, n)

\* A piece of text.split("\n") is the items between two "\n". The regexes
\* are not anchored: a piece matches where one of its items does.
MatchOf(piece, words, needs_value) ==
    LET hits == {i \in 1..Len(piece) :
                    /\ piece[i].label \in words
                    /\ needs_value => piece[i].sep >= 1}
    IN  IF hits = {} THEN 0 ELSE CHOOSE i \in hits : \A j \in hits : i <= j

\* StatusParser::unwrap_capture for a captured number: the regex must match
\* with a non-empty capture, and the capture must convert.
unwrap_capture(piece, words, Cap(_), Parse(_)) ==
    LET i == MatchOf(piece, words, TRUE)
    IN  IF i = 0 THEN Err
        ELSE IF Cap(piece[i].val) = <<>> THEN Err
        ELSE Parse(Cap(piece[i].val))

\* StatusParser::unwrap_capture::<String> of the words group (ON|OFF),
\* (POSN|HOME): the whole regex, its number included, must match.
unwrap_words(piece, words, Cap(_)) ==
    LET i == MatchOf(piece, words, TRUE)
    IN  IF i = 0 THEN Err
        ELSE IF Cap(piece[i].val) = <<>> THEN Err
        ELSE Ok(piece[i].label)

\* StatusParser::has_group(line, az_homed, 1): is "not " there.
has_group(piece) ==
    LET i == MatchOf(piece, AZ_HOMED, FALSE)
    IN  IF i = 0 THEN Err ELSE Ok(piece[i].label = "Dome not homed")

\* The conversion of a (\d) capture compared with 0.
ParseFlag(t) == Ok(DigitVal(t[1]) > 0)

\* text.split("\n") of a text given as items: the pieces between the "\n",
\* the last one being what follows the last "\n" (empty when nothing does).
RECURSIVE SplitLines(_, _)
SplitLines(items, piece) ==
    IF items = <<>> THEN <<piece>>
    ELSE IF Head(items).nl
    THEN <<Append(piece, Head(items))>> \o SplitLines(Tail(items), <<>>)
    ELSE SplitLines(Tail(items), Append(piece, Head(items)))

split(items) == SplitLines(items, <<>>)

\* A length check that is off by one line.
StatusLines_short == 27 - 1

\* The line counts make_status accepts.
StatusLines == 27
StatusLinesWithTrailer == 28

\* StatusParser::make_status. lines[i + 1] is the source's lines[i].
make_status(lines) ==
    IF Len(lines) # StatusLines /\ Len(lines) # StatusLinesWithTrailer THEN Err
    ELSE
    LET main_door_pct == unwrap_capture(lines[1], MAIN, CapInt, ParseF32)
        dropout_door_pct == unwrap_capture(lines[2], DROP, CapInt, ParseF32)
        auto_shutdown_enabled == unwrap_words(lines[3], AUTO_SHUTDOWN, CapInt)
        sensor_code == unwrap_capture(lines[3], AUTO_SHUTDOWN, CapInt, ParseU64)
        az_home_switch == unwrap_words(lines[4], AZ_POS_MATCH, CapFloat)
        az_pos == unwrap_capture(lines[4], AZ_POS_MATCH, CapFloat, ParseF32)
        move_code == unwrap_capture(lines[5], MOVE_CODE, CapInt, ParseU8)
        homed == has_group(lines[6])
        estop_active == unwrap_capture(lines[7], ESTOP_ACTIVE, CapDigit, ParseFlag)
        scb_link_ok == unwrap_capture(lines[8], SCB_LINK_OK, CapDigit, ParseFlag)
        home_azimuth == unwrap_capture(lines[9], HOME_AZIMUTH, CapFloat, ParseF32)
        high_speed == unwrap_capture(lines[10], HIGH_SPEED, CapFloat, ParseF32)
        coast == unwrap_capture(lines[11], COAST, CapFloat, ParseF32)
        tolerance == unwrap_capture(lines[12], TOLERANCE, CapFloat, ParseF32)
        encoder_counts_per_360 ==
            unwrap_capture(lines[13], ENCODER_COUNTS_PER_360, CapInt, ParseU64)
        encoder_counts == unwrap_capture(lines[14], ENCODER_COUNTS, CapInt, ParseU64)
        last_azimuth_goto ==
            unwrap_capture(lines[15], LAST_AZIMUTH_GOTO, CapFloat, ParseF32)
        azimuth_move_timeout ==
            unwrap_capture(lines[16], AZIMUTH_MOVE_TIMEOUT, CapFloat, ParseF32)
        rain_sensor_enabled ==
            unwrap_capture(lines[17], RAIN_SENSOR_ENABLED, CapDigit, ParseFlag)
        cloud_sensor_enabled ==
            unwrap_capture(lines[18], CLOUD_SENSOR_ENABLED, CapDigit, ParseFlag)
        watchdog_timer == unwrap_capture(lines[19], WATCHDOG_TIMER, CapFloat, ParseF32)
        dropout_timer == unwrap_capture(lines[20], DROPOUT_TIMER, CapFloat, ParseF32)
        reversal_delay == unwrap_capture(lines[21], REVERSAL_DELAY, CapFloat, ParseF32)
        main_door_encoder_closed ==
            unwrap_capture(lines[22], MAIN_DOOR_ENCODER_CLOSED, CapInt, ParseU64)
        main_door_encoder_opened ==
            unwrap_capture(lines[23], MAIN_DOOR_ENCODER_OPENED, CapInt, ParseU64)
        dropout_door_encoder_closed ==
            unwrap_capture(lines[24], DROPOUT_DOOR_ENCODER_CLOSED, CapInt, ParseU64)
        dropout_door_encoder_opened ==
            unwrap_capture(lines[25], DROPOUT_DOOR_ENCODER_OPENED, CapInt, ParseU64)
        door_move_timeout ==
            unwrap_capture(lines[26], DOOR_MOVE_TIMEOUT, CapFloat, ParseF32)
        all == <<main_door_pct, dropout_door_pct, auto_shutdown_enabled, sensor_code,
                 az_home_switch, az_pos, move_code, homed, estop_active, scb_link_ok,
                 home_azimuth, high_speed, coast, tolerance, encoder_counts_per_360,
                 encoder_counts, last_azimuth_goto, azimuth_move_timeout,
                 rain_sensor_enabled, cloud_sensor_enabled, watchdog_timer,
                 dropout_timer, reversal_delay, main_door_encoder_closed,
                 main_door_encoder_opened, dropout_door_encoder_closed,
                 dropout_door_encoder_opened, door_move_timeout>>
    IN  IF \E i \in 1..Len(all) : ~all[i].ok THEN Err
        ELSE Ok([auto_shutdown_enabled |-> auto_shutdown_enabled.v = "[ON]",
                 az_home_switch |-> az_home_switch.v = "HOME",
                 az_pos |-> az_pos.v,
                 azimuth_move_timeout |-> azimuth_move_timeout.v,
                 cloud_sensor_enabled |-> cloud_sensor_enabled.v,
                 coast |-> coast.v,
                 door_move_timeout |-> door_move_timeout.v,
                 dropout_door_encoder_closed |-> dropout_door_encoder_closed.v,
                 dropout_door_encoder_opened |-> dropout_door_encoder_opened.v,
                 dropout_door_pct |-> dropout_door_pct.v,
                 dropout_timer |-> dropout_timer.v,
                 encoder_counts |-> encoder_counts.v,
                 encoder_counts_per_360 |-> encoder_counts_per_360.v,
                 estop_active |-> estop_active.v,
                 high_speed |-> high_speed.v,
                 home_azimuth |-> home_azimuth.v,
                 homed |-> ~homed.v,
                 last_azimuth_goto |-> last_azimuth_goto.v,
                 main_door_encoder_closed |-> main_door_encoder_closed.v,
                 main_door_encoder_opened |-> main_door_encoder_opened.v,
                 main_door_pct |-> main_door_pct.v,
                 move_code |-> move_code.v,
                 rain_sensor_enabled |-> rain_sensor_enabled.v,
                 reversal_delay |-> reversal_delay.v,
                 scb_link_ok |-> scb_link_ok.v,
                 sensor_code |-> sensor_code.v,
                 tolerance |-> tolerance.v,
                 watchdog_timer |-> watchdog_timer.v])
----------------------------------------------------------------------------
(* The device session: src/src/atdome_model.rs, ATDomeModel                *)

\* A read that returns 0 bytes in the welcome loop or in the GetStatus arm
\* changes nothing (the loop reads again): it is the action HandshakeEof or
\* ReadStatusEof, which only counts it.

\* The oneshot channel of a request: nothing sent yet, a reply sent, or the
\* sender dropped without a reply.
Pending == [kind |-> "pending", status |-> DefaultStatus]
ReplyNone == [kind |-> "None", status |-> DefaultStatus]
ReplyStatus(s) == [kind |-> "Status", status |-> s]
Dropped == [kind |-> "dropped", status |-> DefaultStatus]

\* Bytes that are no UTF-8 text.
Malformed == Item("0xFF", 0, <<>>, FALSE)

\* str::from_utf8(&buffer[..n_bytes]) is Ok.
IsUtf8(chunk) == \A i \in 1..Len(chunk) : chunk[i] # Malformed

\* str::contains(">") of a chunk read from the socket.
HasPrompt(chunk) == \E i \in 1..Len(chunk) : chunk[i] = Prompt

\* The bytes of the first k writes waiting in a stream, as one read returns them.
RECURSIVE Flatten(_)
Flatten(segments) ==
    IF segments = <<>> THEN <<>> ELSE Head(segments) \o Flatten(Tail(segments))

Chunk(k) == Flatten(SubSeq(c2s, 1, k))

\* The task ends: the receiver and the sender of the request at hand are
\* dropped, and with the receiver every request still queued.
DropAll(boxes, ids) ==
    [i \in 1..Len(boxes) |->
        IF i \in ids /\ boxes[i] = Pending THEN Dropped ELSE boxes[i]]

Queued == {cmd_channel[i] : i \in 1..Len(cmd_channel)}

InitSession ==
    /\ sess_pc = "handshake"
    /\ cmd_channel = <<>>
    /\ requests = <<>>
    /\ inbox = <<>>
    /\ s2c = <<>>
    /\ c2s = <<>>
    /\ peer_open = TRUE
    /\ peer_greeted = FALSE
    /\ cur = 0
    /\ status_str = <<>>
    /\ answers = <<>>
    /\ prompt_seen = {}
    /\ link = [zero_reads |-> 0, malformed |-> FALSE]

\* A client sends (command, oneshot sender) on cmd_channel.
Submit(c) ==
    /\ sess_pc # "failed"
    /\ Len(requests) < MaxReqs
    /\ Len(cmd_channel) < ChannelSize
    /\ requests' = Append(requests, c)
    /\ inbox' = Append(inbox, Pending)
    /\ answers' = Append(answers, <<>>)
    /\ cmd_channel' = Append(cmd_channel, Len(requests) + 1)
    /\ UNCHANGED <<sess_pc, s2c, c2s, peer_open, peer_greeted, cur, status_str,
                   prompt_seen>>

\* The welcome loop: one read; the loop ends when the chunk has a ">", and
\* also when the chunk is no UTF-8 text.
HandshakeRead(k) ==
    /\ sess_pc = "handshake"
    /\ k \in 1..Len(c2s)
    /\ c2s' = SubSeq(c2s, k + 1, Len(c2s))
    /\ sess_pc' = IF ~IsUtf8(Chunk(k)) \/ HasPrompt(Chunk(k)) THEN "idle"
                                                              ELSE "handshake"
    /\ prompt_seen' = IF HasPrompt(Chunk(k)) THEN prompt_seen \cup {0}
                                             ELSE prompt_seen
    /\ UNCHANGED <<cmd_channel, requests, inbox, s2c, peer_open, peer_greeted,
                   cur, status_str, answers>>

\* A failed write that ends the task but leaves the queue as it is.
TakeCommand_keeps_queue(write_ok) ==
    /\ sess_pc = "idle"
    /\ cmd_channel # <<>>
    /\ LET id == Head(cmd_channel)
       IN  /\ cur' = id
           /\ IF write_ok
              THEN /\ s2c' = Append(s2c, [id |-> id, text |-> get_command(requests[id])])
                   /\ sess_pc' = IF requests[id] = GetStatus THEN "read_status"
                                                             ELSE "read_other"
                   /\ cmd_channel' = Tail(cmd_channel)
                   /\ inbox' = inbox
              ELSE /\ s2c' = s2c
                   /\ sess_pc' = "failed"
                   /\ cmd_channel' = cmd_channel
                   /\ inbox' = inbox
    /\ status_str' = <<>>
    /\ UNCHANGED <<requests, c2s, peer_open, peer_greeted, answers, prompt_seen>>

\* cmd_receiver.recv() returned a request: its command is written to the
\* socket; a failed write ends the task.
TakeCommand(write_ok) ==
    /\ sess_pc = "idle"
    /\ cmd_channel # <<>>
    /\ LET id == Head(cmd_channel)
       IN  /\ cur' = id
           /\ IF write_ok
              THEN /\ s2c' = Append(s2c, [id |-> id, text |-> get_command(requests[id])])
                   /\ sess_pc' = IF requests[id] = GetStatus THEN "read_status"
                                                             ELSE "read_other"
                   /\ cmd_channel' = Tail(cmd_channel)
                   /\ inbox' = inbox
              ELSE /\ s2c' = s2c
                   /\ sess_pc' = "failed"
                   /\ cmd_channel' = <<>>
                   /\ inbox' = DropAll(inbox, Queued)
    /\ status_str' = <<>>
    /\ UNCHANGED <<requests, c2s, peer_open, peer_greeted, answers, prompt_seen>>

StatusReply_unsplit(text) ==
    LET status == make_status(<<text>>)
    IN  IF status.ok THEN ReplyStatus(status.v) ELSE Dropped

\* What the GetStatus arm does with the text it read up to the ">".
StatusReply(text) ==
    LET status == make_status(split(text))
    IN  IF status.ok THEN ReplyStatus(status.v) ELSE Dropped

\* The GetStatus arm: one read, pushed to status_str; at the chunk that has a
\* ">" the text is split and parsed and the reply, if there is one, is sent.
ReadStatus(k) ==
    /\ sess_pc = "read_status"
    /\ k \in 1..Len(c2s)
    /\ c2s' = SubSeq(c2s, k + 1, Len(c2s))
    /\ LET text == IF IsUtf8(Chunk(k)) THEN status_str \o Chunk(k) ELSE status_str
       IN  /\ status_str' = text
           /\ prompt_seen' = IF HasPrompt(Chunk(k)) THEN prompt_seen \cup {cur}
                                                    ELSE prompt_seen
           /\ IF ~IsUtf8(Chunk(k)) \/ HasPrompt(Chunk(k))
              THEN /\ inbox' = [inbox EXCEPT ![cur] = StatusReply(text)]
                   /\ sess_pc' = "idle"
              ELSE /\ inbox' = inbox
                   /\ sess_pc' = "read_status"
    /\ UNCHANGED <<cmd_channel, requests, s2c, peer_open, peer_greeted, cur,
                   answers>>

\* The arm of every other command: a read that returns bytes; the loop goes on.
ReadOther(k) ==
    /\ sess_pc = "read_other"
    /\ k \in 1..Len(c2s)
    /\ c2s' = SubSeq(c2s, k + 1, Len(c2s))
    /\ prompt_seen' = IF HasPrompt(Chunk(k)) THEN prompt_seen \cup {cur}
                                             ELSE prompt_seen
    /\ UNCHANGED <<sess_pc, cmd_channel, requests, inbox, s2c, peer_open,
                   peer_greeted, cur, status_str, answers>>

\* The arm of every other command: a read that returns 0 bytes (the controller
\* closed the connection) ends the loop and Reply::None is sent.
ReadOtherEof ==
    /\ sess_pc = "read_other"
    /\ c2s = <<>>
    /\ ~peer_open
    /\ inbox' = [inbox EXCEPT ![cur] = ReplyNone]
    /\ sess_pc' = "idle"
    /\ UNCHANGED <<cmd_channel, requests, s2c, c2s, peer_open, peer_greeted, cur,
                   status_str, answers, prompt_seen>>

\* A read that returns an error ends the task.
ReadFail ==
    /\ sess_pc \in {"handshake", "read_status", "read_other"}
    /\ sess_pc' = "failed"
    /\ cmd_channel' = <<>>
    /\ inbox' = DropAll(inbox, Queued \cup {cur})
    /\ UNCHANGED <<requests, s2c, c2s, peer_open, peer_greeted, cur, status_str,
                   answers, prompt_seen>>

\* ATDomeModel::is_finished
is_finished == sess_pc = "failed"

\* The welcome loop on a closed connection: the read returns 0 bytes, the
\* empty text has no ">", and the loop reads again.
HandshakeEof ==
    /\ sess_pc = "handshake"
    /\ c2s = <<>>
    /\ ~peer_open
    /\ link.zero_reads < MaxZeroReads
    /\ link' = [link EXCEPT !.zero_reads = @ + 1]
    /\ UNCHANGED sess_vars

\* The same in the loop of the GetStatus arm.
ReadStatusEof ==
    /\ sess_pc = "read_status"
    /\ c2s = <<>>
    /\ ~peer_open
    /\ link.zero_reads < MaxZeroReads
    /\ link' = [link EXCEPT !.zero_reads = @ + 1]
    /\ UNCHANGED sess_vars
----------------------------------------------------------------------------
(* The controller at the other end of the session's socket                 *)

\* The commands clients submit in the behaviours explored.
SessionCmds == {GetStatus, StopMotion, MoveAz(101 * Hundredths)}

\* The states the controller reports in the behaviours explored: the dome of
\* test_atdome_model_get_status (at rest at 285.00) and a dome on its way.
ReportedStatus ==
    {[DefaultStatus EXCEPT !.az_pos = 285 * Hundredths,
                           !.last_azimuth_goto = 285 * Hundredths],
     [DefaultStatus EXCEPT !.az_pos = 1212, !.move_code = 1,
                           !.last_azimuth_goto = 101 * Hundredths]}

\* Dumps no Status can be made of: lines missing, a line that is no status
\* line, a move code that is no u8, an azimuth with a sign.
BrokenDumps ==
    LET block == as_string(CHOOSE s \in ReportedStatus : s.move_code = 0)
    IN  {SubSeq(block, 1, 25),
         [block EXCEPT ![7] = Line("Emergency Stop", 0, <<>>)],
         [block EXCEPT ![5] = Line("--", 1, <<"3", "0", "0">>)],
         [block EXCEPT ![4] = Line("POSN", 1, <<"-">> \o F32Text(12))]}

Dumps == {as_string(s) : s \in ReportedStatus} \cup BrokenDumps

\* Where the transport may cut a dump in two (0: it does not).
Cuts == {0, 13}

Segments(dump, cut) ==
    IF cut = 0 THEN <<dump>>
    ELSE <<SubSeq(dump, 1, cut), SubSeq(dump, cut + 1, Len(dump))>>

\* The controller writes its welcome text and the first prompt.
PeerGreet ==
    /\ peer_open
    /\ ~peer_greeted
    /\ peer_greeted' = TRUE
    /\ c2s' = c2s \o <<<<Line("ATDome", 0, <<>>)>>, <<Prompt>>>>
    /\ UNCHANGED <<sess_pc, cmd_channel, requests, inbox, s2c, peer_open, cur,
                   status_str, answers, prompt_seen>>

\* The controller reads one command and answers it: the dump if the command
\* is "+", and the prompt.
PeerAnswer(dump, cut) ==
    /\ peer_open
    /\ s2c # <<>>
    /\ LET req == Head(s2c)
       IN  IF req.text = get_command(GetStatus)
           THEN /\ c2s' = c2s \o Segments(dump, cut) \o <<<<Prompt>>>>
                /\ answers' = [answers EXCEPT ![req.id] = dump]
           ELSE /\ cut = 0
                /\ dump = as_string(CHOOSE s \in ReportedStatus : s.move_code = 0)
                /\ c2s' = c2s \o <<<<Prompt>>>>
                /\ answers' = answers
    /\ s2c' = Tail(s2c)
    /\ UNCHANGED <<sess_pc, cmd_channel, requests, inbox, peer_open, peer_greeted,
                   cur, status_str, prompt_seen>>

\* The controller closes the connection.
PeerClose ==
    /\ peer_open
    /\ peer_open' = FALSE
    /\ UNCHANGED <<sess_pc, cmd_channel, requests, inbox, s2c, c2s, peer_greeted,
                   cur, status_str, answers, prompt_seen>>

\* The controller's welcome starts with bytes that are no UTF-8 text.
PeerGarble ==
    /\ peer_open
    /\ ~peer_greeted
    /\ ~link.malformed
    /\ c2s' = Append(c2s, <<Malformed>>)
    /\ link' = [link EXCEPT !.malformed = TRUE]
    /\ UNCHANGED <<sess_pc, cmd_channel, requests, inbox, s2c, peer_open,
                   peer_greeted, cur, status_str, answers, prompt_seen>>

SessionNext ==
    \/ \E c \in SessionCmds : Submit(c)
    \/ \E k \in 1..Len(c2s) : HandshakeRead(k)
    \/ \E write_ok \in BOOLEAN : TakeCommand(write_ok)
    \/ \E k \in 1..Len(c2s) : ReadStatus(k)
    \/ \E k \in 1..Len(c2s) : ReadOther(k)
    \/ ReadOtherEof
    \/ ReadFail
    \/ PeerGreet
    \/ \E dump \in Dumps, cut \in Cuts : PeerAnswer(dump, cut)
    \/ PeerClose

\* The session on a link that also delivers malformed bytes and the zero-byte
\* reads of a closed connection.
LinkNext ==
    \/ SessionNext /\ UNCHANGED link
    \/ PeerGarble
    \/ HandshakeEof
    \/ ReadStatusEof
----------------------------------------------------------------------------
(* Claims about the device session                                         *)

\* The values the lines of the rendered block of s carry: the three live
\* ones and the constants of the renderer.
Shown(s) ==
    [auto_shutdown_enabled |-> FALSE, az_home_switch |-> FALSE,
     az_pos |-> s.az_pos, azimuth_move_timeout |-> 120 * Hundredths,
     cloud_sensor_enabled |-> TRUE, coast |-> 50,
     door_move_timeout |-> 360 * Hundredths,
     dropout_door_encoder_closed |-> <<"5", "6", "6", "9", "7", "7", "6", "5", "7", "8">>,
     dropout_door_encoder_opened |-> <<"5", "7", "1", "0", "9", "9", "6", "1", "8", "4">>,
     dropout_door_pct |-> 0, dropout_timer |-> 5 * Hundredths,
     encoder_counts |-> <<"1", "1", "1", "6", "1", "5", "0", "8", "9">>,
     encoder_counts_per_360 |-> <<"4", "0", "1", "8", "1", "4", "3", "2", "3", "2">>,
     estop_active |-> FALSE, high_speed |-> 5 * Hundredths,
     home_azimuth |-> 10 * Hundredths, homed |-> FALSE,
     last_azimuth_goto |-> s.last_azimuth_goto,
     main_door_encoder_closed |-> <<"1", "1", "8", "4", "4", "9", "1", "8", "1", "4", "7", "8">>,
     main_door_encoder_opened |-> <<"8", "2", "8", "7", "6", "1", "6", "3", "8", "8">>,
     main_door_pct |-> 0, move_code |-> s.move_code,
     rain_sensor_enabled |-> TRUE, reversal_delay |-> 4 * Hundredths,
     scb_link_ok |-> TRUE, sensor_code |-> <<"0">>,
     tolerance |-> 1 * Hundredths, watchdog_timer |-> 600 * Hundredths]

StatusRequests == {id \in 1..Len(requests) : requests[id] = GetStatus}
OtherRequests == {id \in 1..Len(requests) : requests[id] # GetStatus}

\* The controller answered request id with the rendered block of s and the
\* session has read that answer up to its prompt.
AnsweredWith(id, s) ==
    /\ id \in StatusRequests
    /\ answers[id] = as_string(s)
    /\ id \in prompt_seen

\* C6: a GetStatus whose answer is a well-formed block and the prompt has
\* exactly one reply in its inbox, a Reply::Status with the values of the
\* block, and the session task has not ended: it waits for the next command.
C6_StatusDelivered ==
    \A id \in 1..Len(requests) : \A s \in ReportedStatus :
        AnsweredWith(id, s) =>
            /\ inbox[id] = ReplyStatus(Shown(s))
            /\ cur = id => (~is_finished /\ sess_pc = "idle")

\* The block of a dome on its way was read and parsed, its values are in the
\* inbox, and a request queued behind it has been taken since.
C6_Witness ==
    \E id \in 1..Len(requests) : \E s \in ReportedStatus :
        /\ AnsweredWith(id, s)
        /\ s.move_code = 1
        /\ inbox[id].kind = "Status"
        /\ inbox[id].status.az_pos = 1212
        /\ cur > id

\* C7: when several GetStatus requests were submitted, each of them whose
\* answer the session has read has exactly one reply in its inbox, made from
\* its own answer, and no request is replied to before one queued ahead of it.
C7_EachRequesterOneReply ==
    Cardinality(StatusRequests) >= 2 =>
        \A id \in StatusRequests :
            /\ id \in prompt_seen =>
                   /\ inbox[id].kind \in {"Status", "None"}
                   /\ inbox[id].kind = "Status" =>
                          \E s \in ReportedStatus :
                              /\ answers[id] = as_string(s)
                              /\ inbox[id].status = Shown(s)
            /\ inbox[id].kind \in {"Status", "None"} =>
                   \A ahead \in StatusRequests :
                       ahead < id => inbox[ahead].kind \in {"Status", "None"}

\* C8: once the session has read the prompt that ends the exchange of a
\* command other than GetStatus, Reply::None is in that command's inbox.
C8_NoneAtPrompt ==
    \A id \in OtherRequests : id \in prompt_seen => inbox[id] = ReplyNone

\* C9: a GetStatus whose answer cannot be parsed has Reply::None in its inbox
\* once the session has read the answer, and the session task has not ended.
C9_NoneOnParseError ==
    \A id \in StatusRequests :
        (id \in prompt_seen /\ ~make_status(split(answers[id] \o <<Prompt>>)).ok) =>
            /\ inbox[id] = ReplyNone
            /\ cur = id => ~is_finished


\* C25: the session takes no command off its queue, and writes none to the
\* socket, before it has read the controller's first prompt.
C25_NoWriteBeforePrompt ==
    (cur # 0 \/ s2c # <<>>) => 0 \in prompt_seen

\* The same on a link whose welcome is UTF-8 text.
NoWriteBeforePromptOfText ==
    ~link.malformed => ((cur # 0 \/ s2c # <<>>) => 0 \in prompt_seen)

\* The exchange of request id has ended: its prompt was read, or the end of
\* the stream was met, and a reply is in its inbox.
Ended(id) ==
    /\ id \in prompt_seen \/ (~peer_open /\ c2s = <<>>)
    /\ inbox[id].kind \in {"Status", "None"}

\* C26: the session writes a command to the socket only when the exchange
\* of the command it took before has ended: that command's prompt was read
\* and its inbox holds a reply.
C26_OneOutstanding ==
    [][(cur' # cur /\ cur # 0) => Ended(cur)]_vars

\* C26 but for the GetStatus whose block could not be parsed, which is left
\* without a reply.
OneOutstandingButForParseErrors ==
    [][(cur' # cur /\ cur # 0) =>
          \/ Ended(cur)
          \/ /\ requests[cur] = GetStatus
             /\ cur \in prompt_seen
             /\ inbox[cur] = Dropped
             /\ ~make_status(split(status_str)).ok]_vars

\* The half of C26 the loop keeps: a command is taken and written only while
\* the task reads no reply, and the reads of one exchange follow its write.
OneExchangeAtATime ==
    [][cur' # cur => (sess_pc = "idle" /\ sess_pc' # "idle" /\ cur' > cur)]_vars

\* C27: once a read or a write has failed the task has ended: is_finished
\* holds for good, the queue is dropped with every inbox that was waiting,
\* no command is taken or written any more and no inbox changes.
C27_FailureEndsSession ==
    /\ [](is_finished =>
            /\ cmd_channel = <<>>
            /\ \A id \in 1..Len(inbox) : inbox[id] # Pending)
    /\ [][is_finished =>
            /\ is_finished'
            /\ UNCHANGED <<cur, inbox, requests>>
            /\ Len(s2c') <= Len(s2c)]_vars

\* The read of a status failed with a request queued behind it: neither
\* requester has a reply.
C27_Witness ==
    /\ is_finished
    /\ cur # 0 /\ requests[cur] = GetStatus
    /\ inbox[cur] = Dropped
    /\ \E id \in 1..Len(requests) : id > cur /\ inbox[id] = Dropped

\* C28: a read loop that has met the end of the stream is left: after a
\* zero-byte read the session is neither in its welcome loop nor in the loop
\* of the GetStatus arm.
C28_LoopsEndAtEof ==
    link.zero_reads > 0 => sess_pc \notin {"handshake", "read_status"}

----------------------------------------------------------------------------
(* The mock controller: src/src/mock_controller/mock_controller.rs         *)

\* enum MoveCode and MoveCode::byte_value (src/src/move_code.rs).
MoveCode == {"AzimuthPositive", "AzimuthNegative", "MainDoorClosing",
             "MainDoorOpening", "DropoutDoorClosing", "DropoutDoorOpening",
             "AzimuthHoming", "EStop"}

byte_value(flag) ==
    CASE flag = "AzimuthPositive" -> 1
      [] flag = "AzimuthNegative" -> 2
      [] flag = "MainDoorClosing" -> 4
      [] flag = "MainDoorOpening" -> 8
      [] flag = "DropoutDoorClosing" -> 16
      [] flag = "DropoutDoorOpening" -> 32
      [] flag = "AzimuthHoming" -> 64
      [] flag = "EStop" -> 128

\* MoveCode::byte_value of the two azimuth flags.
AzimuthPositive == 1
AzimuthNegative == 2

\* The simulator computes az_pos and last_azimuth_goto in f32. Both are held
\* here exactly, as multiples of 2^-27 (the spacing of the f32 values next to
\* 0.12); every f32 of magnitude between 2^-4 and 16 is such a multiple, and
\* so is every sum and difference of two of them.
F32One == 2^27

\* The spacing of the f32 values around n: 24 bits of mantissa.
RECURSIVE Ulp(_)
Ulp(n) == IF n < 2^24 THEN 1 ELSE 2 * Ulp(n \div 2)

\* The f32 nearest to n, ties to the even mantissa.
F32Round(n) ==
    LET a == IF n < 0 THEN -n ELSE n
        q == Ulp(a)
        down == a - (a % q)
        r == IF 2 * (a % q) < q THEN down
             ELSE IF 2 * (a % q) > q THEN down + q
             ELSE IF (down \div q) % 2 = 0 THEN down ELSE down + q
    IN  IF n < 0 THEN -r ELSE r

\* a + b and a - b of f32.
F32Add(a, b) == F32Round(a + b)
F32Sub(a, b) == F32Round(a - b)

\* The f32 of an azimuth the decoder returns (hundredths here). Its capture
\* holds digits only, so the value is a whole number of degrees.
F32Of(az) == F32Round((az \div Hundredths) * F32One)

\* delta_az_per_cycle: the f32 nearest to 0.12, 16106127 * 2^-27.
delta_az_per_cycle == 16106127

\* code & bit > 0 and code ^ bit, for a bit that is a power of two.
HasBit(code, bit) == (code \div bit) % 2 = 1
Xor(code, bit) == IF HasBit(code, bit) THEN code - bit ELSE code + bit

Abs(x) == IF x < 0 THEN -x ELSE x

\* The status the simulator task starts with.
SimInitStatus ==
    [DefaultStatus EXCEPT
        !.scb_link_ok = TRUE,
        !.high_speed = 6 * Hundredths,
        !.main_door_encoder_closed = <<"1", "1", "8", "4", "4", "9", "1", "8", "1", "4", "7", "8">>,
        !.main_door_encoder_opened = <<"8", "2", "8", "7", "6", "1", "6", "3", "8", "8">>,
        !.dropout_door_encoder_closed = <<"5", "6", "6", "9", "7", "7", "6", "5", "7", "8">>,
        !.dropout_door_encoder_opened = <<"5", "7", "1", "0", "9", "9", "6", "1", "8", "4">>]

HandleCmd_stop_toggles(status, c) ==
    CASE c.cmd = "MoveAz" -> [status EXCEPT !.last_azimuth_goto = F32Of(c.az)]
      [] c.cmd = "StopMotion" ->
            [status EXCEPT !.last_azimuth_goto = status.az_pos,
                           !.move_code = Xor(status.move_code, AzimuthPositive)]
      [] OTHER -> status

\* A match whose HomeAzimuth arm sends the dome to azimuth 0.
HandleCmd_home_resets(status, c) ==
    CASE c.cmd = "MoveAz" -> [status EXCEPT !.last_azimuth_goto = F32Of(c.az)]
      [] c.cmd = "HomeAzimuth" -> [status EXCEPT !.last_azimuth_goto = 0]
      [] c.cmd = "StopMotion" ->
            IF status.last_azimuth_goto # status.az_pos
            THEN [status EXCEPT
                    !.last_azimuth_goto = status.az_pos,
                    !.move_code =
                        IF HasBit(status.move_code, AzimuthPositive)
                        THEN Xor(status.move_code, AzimuthPositive)
                        ELSE IF HasBit(status.move_code, AzimuthNegative)
                        THEN Xor(status.move_code, AzimuthNegative)
                        ELSE status.move_code]
            ELSE status
      [] OTHER -> status

\* A StopMotion arm that lowers the direction flags and keeps the target.
HandleCmd_stop_keeps_target(status, c) ==
    CASE c.cmd = "MoveAz" -> [status EXCEPT !.last_azimuth_goto = F32Of(c.az)]
      [] c.cmd = "StopMotion" ->
            IF status.last_azimuth_goto # status.az_pos
            THEN [status EXCEPT
                    !.move_code =
                        IF HasBit(status.move_code, AzimuthPositive)
                        THEN Xor(status.move_code, AzimuthPositive)
                        ELSE IF HasBit(status.move_code, AzimuthNegative)
                        THEN Xor(status.move_code, AzimuthNegative)
                        ELSE status.move_code]
            ELSE status
      [] OTHER -> status

\* The match on cmd.atdome_cmd: the status after the command.
HandleCmd(status, c) ==
    CASE c.cmd = "MoveAz" -> [status EXCEPT !.last_azimuth_goto = F32Of(c.az)]
      [] c.cmd = "StopMotion" ->
            IF status.last_azimuth_goto # status.az_pos
            THEN [status EXCEPT
                    !.last_azimuth_goto = status.az_pos,
                    !.move_code =
                        IF HasBit(status.move_code, AzimuthPositive)
                        THEN Xor(status.move_code, AzimuthPositive)
                        ELSE IF HasBit(status.move_code, AzimuthNegative)
                        THEN Xor(status.move_code, AzimuthNegative)
                        ELSE status.move_code]
            ELSE status
      [] OTHER -> status

\* The reply sent on cmd.tx; the status of a GetStatus is the one before
\* the cycle's kinematics.
ReplyTo(status, c) == IF c.cmd = "GetStatus" THEN ReplyStatus(status) ELSE ReplyNone

\* Kinematics that move the dome without raising a direction flag.
Kinematics_unflagged(status) ==
    IF /\ status.az_pos # status.last_azimuth_goto
       /\ status.move_code \in {0, AzimuthPositive, AzimuthNegative}
    THEN LET delta_az == F32Sub(status.last_azimuth_goto, status.az_pos)
         IN  IF Abs(delta_az) > delta_az_per_cycle
             THEN IF delta_az > 0
                  THEN [status EXCEPT
                          !.az_pos = F32Add(status.az_pos, delta_az_per_cycle)]
                  ELSE [status EXCEPT
                          !.az_pos = F32Sub(status.az_pos, delta_az_per_cycle)]
             ELSE [status EXCEPT !.move_code = 0,
                                 !.az_pos = status.last_azimuth_goto]
    ELSE status

\* Kinematics that raise the flag of the direction of each step, whatever
\* flag is already up.
Kinematics_reflagged(status) ==
    IF /\ status.az_pos # status.last_azimuth_goto
       /\ status.move_code \in {0, AzimuthPositive, AzimuthNegative}
    THEN LET delta_az == F32Sub(status.last_azimuth_goto, status.az_pos)
         IN  IF Abs(delta_az) > delta_az_per_cycle
             THEN IF delta_az > 0
                  THEN [status EXCEPT
                          !.move_code = IF HasBit(status.move_code, AzimuthPositive)
                                        THEN status.move_code
                                        ELSE Xor(status.move_code, AzimuthPositive),
                          !.az_pos = F32Add(status.az_pos, delta_az_per_cycle)]
                  ELSE [status EXCEPT
                          !.move_code = IF HasBit(status.move_code, AzimuthNegative)
                                        THEN status.move_code
                                        ELSE Xor(status.move_code, AzimuthNegative),
                          !.az_pos = F32Sub(status.az_pos, delta_az_per_cycle)]
             ELSE [status EXCEPT !.move_code = 0,
                                 !.az_pos = status.last_azimuth_goto]
    ELSE status

\* The kinematics of one cycle.
Kinematics(status) ==
    IF /\ status.az_pos # status.last_azimuth_goto
       /\ status.move_code \in {0, AzimuthPositive, AzimuthNegative}
    THEN LET delta_az == F32Sub(status.last_azimuth_goto, status.az_pos)
         IN  IF Abs(delta_az) > delta_az_per_cycle
             THEN IF delta_az > 0
                  THEN [status EXCEPT
                          !.move_code = IF status.move_code = 0
                                        THEN Xor(status.move_code, AzimuthPositive)
                                        ELSE status.move_code,
                          !.az_pos = F32Add(status.az_pos, delta_az_per_cycle)]
                  ELSE [status EXCEPT
                          !.move_code = IF status.move_code = 0
                                        THEN Xor(status.move_code, AzimuthNegative)
                                        ELSE status.move_code,
                          !.az_pos = F32Sub(status.az_pos, delta_az_per_cycle)]
             ELSE [status EXCEPT !.move_code = 0,
                                 !.az_pos = status.last_azimuth_goto]
    ELSE status

\* The oneshot channel of a command before the simulator has answered it.
NoReply == [kind |-> "none", status |-> DefaultStatus]

\* Socket calls of the connection loop, as recorded in wire.
Accepted == [ev |-> "accept", text |-> <<>>]
ReadOf(text) == [ev |-> "read", text |-> text]
WrotePrompt == [ev |-> "prompt", text |-> <<>>]
WroteStatus == [ev |-> "status", text |-> <<>>]

\* What the simulator did last: the cycles it has run since it handled its
\* last MoveAz or StopMotion (that cycle included) with the dome away from its
\* target; whether it has handled no such command, one MoveAz, or more; the
\* command it handled last and whether the dome was at its target then.
InitTrace == [cycles |-> 0, moves |-> "none", last |-> "none", rest |-> TRUE]

IsMotion(c) == c.cmd \in {"MoveAz", "StopMotion"}

AtRest(status) == status.az_pos = status.last_azimuth_goto

\* The trace after a cycle that handled c.
Handled(trace, status, c) ==
    [cycles |-> IF IsMotion(c) THEN 1
                ELSE IF AtRest(status) THEN trace.cycles ELSE trace.cycles + 1,
     moves |-> IF ~IsMotion(c) THEN trace.moves
               ELSE IF trace.moves = "none" /\ c.cmd = "MoveAz" THEN "one"
               ELSE "more",
     last |-> c.cmd,
     rest |-> AtRest(status)]

InitMock ==
    /\ sock_ok = TRUE
    /\ sim_trace = InitTrace
    /\ mock_pc = "accept"
    /\ sim_status = SimInitStatus
    /\ sim_rx = <<>>
    /\ sim_reply = NoReply
    /\ client_open = FALSE
    /\ client_out = <<>>
    /\ n_clients = 0
    /\ n_sent = 0
    /\ wire = <<>>

\* The process runs: main has not returned and has not panicked.
Running == mock_pc \notin {"returned", "panicked"}

\* The status after every command of q, in order.
RECURSIVE HandleAll(_, _)
HandleAll(status, q) ==
    IF q = <<>> THEN status ELSE HandleAll(HandleCmd(status, Head(q)), Tail(q))

\* A cycle that empties the inbox before it runs the kinematics.
SimCycle_drains ==
    /\ Running
    /\ IF sim_rx # <<>>
       THEN /\ sim_status' = Kinematics(HandleAll(sim_status, sim_rx))
            /\ sim_reply' = ReplyTo(sim_status, Head(sim_rx))
            /\ sim_rx' = <<>>
            /\ sim_trace' = Handled(sim_trace, sim_status, Head(sim_rx))
       ELSE /\ sim_status' = Kinematics(sim_status)
            /\ sim_status' # sim_status
            /\ sim_trace' = [sim_trace EXCEPT !.cycles = @ + 1]
            /\ UNCHANGED <<sim_reply, sim_rx>>
    /\ UNCHANGED <<mock_pc, client_open, client_out, n_clients, n_sent, wire,
                   sock_ok>>

\* One cycle of the simulator task: at most one command is taken with
\* try_recv and answered, then the kinematics, then the sleep.
SimCycle ==
    /\ Running
    /\ IF sim_rx # <<>>
       THEN /\ sim_status' = Kinematics(HandleCmd(sim_status, Head(sim_rx)))
            /\ sim_reply' = ReplyTo(sim_status, Head(sim_rx))
            /\ sim_rx' = Tail(sim_rx)
            /\ sim_trace' = Handled(sim_trace, sim_status, Head(sim_rx))
       ELSE /\ sim_status' = Kinematics(sim_status)
            /\ sim_status' # sim_status
            /\ sim_trace' = [sim_trace EXCEPT !.cycles = @ + 1]
            /\ UNCHANGED <<sim_reply, sim_rx>>
    /\ UNCHANGED <<mock_pc, client_open, client_out, n_clients, n_sent, wire,
                   sock_ok>>

\* listener.accept() returns a client and the first prompt is written; a
\* failed write makes run_mock_controller return the error.
Accept(write_ok) ==
    /\ mock_pc = "accept"
    /\ n_clients < MaxClients
    /\ n_clients' = n_clients + 1
    /\ n_sent' = 0
    /\ client_open' = TRUE
    /\ client_out' = <<>>
    /\ wire' = <<Accepted, WrotePrompt>>
    /\ mock_pc' = IF write_ok THEN "read" ELSE "returned"
    /\ sock_ok' = write_ok
    /\ UNCHANGED <<sim_status, sim_rx, sim_reply, sim_trace>>

ReadText_submit_unknown(write_ok) ==
    /\ mock_pc = "read"
    /\ client_out # <<>>
    /\ client_out' = Tail(client_out)
    /\ LET text == Head(client_out)
           atdome_cmd == into_atdome_cmd(trim_end_matches(text))
       IN  CASE atdome_cmd = Panic ->
                   /\ mock_pc' = "panicked"
                   /\ wire' = Append(wire, ReadOf(text))
                   /\ UNCHANGED <<sim_rx, sim_reply, sock_ok>>
             [] OTHER ->
                   /\ write_ok
                   /\ mock_pc' = "await"
                   /\ wire' = Append(wire, ReadOf(text))
                   /\ sim_rx' = Append(sim_rx, atdome_cmd)
                   /\ sim_reply' = NoReply
                   /\ UNCHANGED sock_ok
    /\ UNCHANGED <<sim_status, client_open, n_clients, n_sent, sim_trace>>

\* socket.read returns the text of one write of the client. It is trimmed
\* and decoded: Unknown is printed and the prompt written; any other command
\* is sent to the simulator; a decoder that aborts takes the process with it.
ReadText(write_ok) ==
    /\ mock_pc = "read"
    /\ client_out # <<>>
    /\ client_out' = Tail(client_out)
    /\ LET text == Head(client_out)
           atdome_cmd == into_atdome_cmd(trim_end_matches(text))
       IN  CASE atdome_cmd = Panic ->
                   /\ mock_pc' = "panicked"
                   /\ wire' = Append(wire, ReadOf(text))
                   /\ UNCHANGED <<sim_rx, sim_reply, sock_ok>>
             [] atdome_cmd = Unknown ->
                   /\ mock_pc' = IF write_ok THEN "read" ELSE "returned"
                   /\ wire' = wire \o <<ReadOf(text), WrotePrompt>>
                   /\ sock_ok' = write_ok
                   /\ UNCHANGED <<sim_rx, sim_reply>>
             [] OTHER ->
                   /\ write_ok
                   /\ mock_pc' = "await"
                   /\ wire' = Append(wire, ReadOf(text))
                   /\ sim_rx' = Append(sim_rx, atdome_cmd)
                   /\ sim_reply' = NoReply
                   /\ UNCHANGED sock_ok
    /\ UNCHANGED <<sim_status, client_open, n_clients, n_sent, sim_trace>>

\* mock_controller_rx.await returns the simulator's reply: a Status is
\* rendered and written (the outcome of that write is ignored), then the
\* prompt is written; a failed prompt write makes run_mock_controller return.
WriteReply(write_ok) ==
    /\ mock_pc = "await"
    /\ sim_reply # NoReply
    /\ wire' = wire \o (IF sim_reply.kind = "Status" THEN <<WroteStatus>> ELSE <<>>)
                    \o <<WrotePrompt>>
    /\ sim_reply' = NoReply
    /\ mock_pc' = IF write_ok THEN "read" ELSE "returned"
    /\ sock_ok' = write_ok
    /\ UNCHANGED <<sim_status, sim_rx, client_open, client_out, n_clients, n_sent,
                   sim_trace>>

\* A connection loop that goes back to accept when the client has nothing
\* more to read, closed or not.
ReadEof_while_open ==
    /\ mock_pc = "read"
    /\ client_out = <<>>
    /\ mock_pc' = "accept"
    /\ UNCHANGED <<sim_status, sim_rx, sim_reply, client_open, client_out,
                   n_clients, n_sent, wire, sock_ok, sim_trace>>

\* socket.read returns Ok(0): the client has closed; back to accept.
ReadEof ==
    /\ mock_pc = "read"
    /\ client_out = <<>>
    /\ ~client_open
    /\ mock_pc' = "accept"
    /\ UNCHANGED <<sim_status, sim_rx, sim_reply, client_open, client_out,
                   n_clients, n_sent, wire, sock_ok, sim_trace>>

\* socket.read returns an error: run_mock_controller returns it.
ReadError ==
    /\ mock_pc = "read"
    /\ mock_pc' = "returned"
    /\ UNCHANGED <<sim_status, sim_rx, sim_reply, client_open, client_out,
                   n_clients, n_sent, wire, sock_ok, sim_trace>>

\* The texts clients write in the behaviours explored: commands as
\* get_command encodes them, a text that is no command, and a MoveAz
\* without its number.
ClientTexts ==
    {get_command(GetStatus), get_command(StopMotion), get_command(MoveAz(Hundredths)),
     get_command(Cmd("HomeAzimuth")), <<"X", "X">>, <<" ", "M", "V">>}

\* The client writes a text.
ClientSend(text) ==
    /\ Running
    /\ client_open
    /\ n_sent < MaxSent
    /\ n_sent' = n_sent + 1
    /\ client_out' = Append(client_out, text)
    /\ UNCHANGED <<mock_pc, sim_status, sim_rx, sim_reply, client_open, n_clients,
                   wire, sock_ok, sim_trace>>

\* The client closes its connection.
ClientClose ==
    /\ Running
    /\ client_open
    /\ client_open' = FALSE
    /\ UNCHANGED <<mock_pc, sim_status, sim_rx, sim_reply, client_out, n_clients,
                   n_sent, wire, sock_ok, sim_trace>>

\* The commands the connection loop sends to the simulator in the behaviours
\* of the simulator explored on its own.
SimCmds ==
    {GetStatus, StopMotion, Cmd("HomeAzimuth"), Cmd("OpenShutter"),
     MoveAz(0), MoveAz(Hundredths), MoveAz(3 * Hundredths)}

\* tx.send(mock_controller_cmd): the connection loop hands a decoded command
\* to the simulator; it waits for the reply before it sends the next one.
SimSend(c) ==
    /\ Running
    /\ sim_rx = <<>>
    /\ sim_rx' = <<c>>
    /\ sim_reply' = NoReply
    /\ UNCHANGED <<mock_pc, sim_status, client_open, client_out, n_clients, n_sent,
                   wire, sock_ok, sim_trace>>

\* The commands sent to an inbox that holds several.
QueuedCmds == {GetStatus, StopMotion, MoveAz(Hundredths)}

\* tx.send(mock_controller_cmd) by a sender that does not wait for the
\* reply of the command before: the command joins those in the channel.
SimSendQueued(c) ==
    /\ Running
    /\ Len(sim_rx) < MaxPending
    /\ sim_rx' = Append(sim_rx, c)
    /\ UNCHANGED <<mock_pc, sim_status, sim_reply, client_open, client_out,
                   n_clients, n_sent, wire, sock_ok, sim_trace>>

\* The simulator task with several commands in its inbox.
QueueNext ==
    \/ SimCycle
    \/ \E c \in QueuedCmds : SimSendQueued(c)

\* The simulator task and the commands it is sent.
SimNext ==
    \/ SimCycle
    \/ \E c \in SimCmds : SimSend(c)

MockNext ==
    \/ SimCycle
    \/ \E write_ok \in BOOLEAN : Accept(write_ok)
    \/ \E write_ok \in BOOLEAN : ReadText(write_ok)
    \/ \E write_ok \in BOOLEAN : WriteReply(write_ok)
    \/ ReadEof
    \/ ReadError
    \/ \E text \in ClientTexts : ClientSend(text)
    \/ ClientClose

----------------------------------------------------------------------------
(* Claims about the mock controller                                        *)

\* The calls that follow the read at position i of wire, up to the next read.
RECURSIVE After(_)
After(i) ==
    IF i >= Len(wire) \/ wire[i + 1].ev = "read" THEN <<>>
    ELSE <<wire[i + 1].ev>> \o After(i + 1)

\* The read at position i is the one being handled.
InHand(i) == mock_pc = "await" /\ \A j \in (i + 1)..Len(wire) : wire[j].ev # "read"

\* C10: a connection starts with one prompt written before anything is read,
\* and every text read from the client is followed, before the next read, by
\* exactly one prompt, with the status block before it exactly when the text
\* is a GetStatus.
C10_PromptProtocol ==
    wire # <<>> =>
        /\ wire[1].ev = "accept" /\ wire[2].ev = "prompt"
        /\ \A i \in 3..Len(wire) :
               (wire[i].ev = "read" /\ ~InHand(i)) =>
                   After(i) = IF into_atdome_cmd(trim_end_matches(wire[i].text)) = GetStatus
                              THEN <<"status", "prompt">>
                              ELSE <<"prompt">>
        /\ \A i \in 3..Len(wire) :
               wire[i].ev \in {"status", "prompt"} =>
                   \E j \in 3..(i - 1) : wire[j].ev = "read"

\* The same, as long as the decoder has not aborted.
PromptProtocolUnlessAborted == mock_pc # "panicked" => C10_PromptProtocol

\* The connection loop reads a text that decodes to Unknown.
ReadsUnknown ==
    /\ mock_pc = "read"
    /\ client_out # <<>>
    /\ client_out' = Tail(client_out)
    /\ into_atdome_cmd(trim_end_matches(Head(client_out))) = Unknown

\* C11: the step that reads a text decoding to Unknown sends nothing to the
\* simulator and leaves its status alone, writes the prompt and nothing else,
\* and goes back to reading from the same client unless that write failed;
\* no Unknown is ever in the simulator's inbox.
C11_UnknownNotSubmitted ==
    [][/\ ReadsUnknown =>
            /\ sim_rx' = sim_rx
            /\ sim_status' = sim_status
            /\ wire' = wire \o <<ReadOf(Head(client_out)), WrotePrompt>>
            /\ sock_ok' => (mock_pc' = "read" /\ client_open' = client_open)
       /\ \A i \in 1..Len(sim_rx') : sim_rx'[i] # Unknown]_vars

\* "XX" was read and answered by the prompt alone, and the GetStatus the same
\* client wrote next was answered by the status block and the prompt.
C11_Witness ==
    \E i \in 1..Len(wire) :
        /\ Len(wire) >= i + 4
        /\ wire[i] = ReadOf(<<"X", "X">>)
        /\ wire[i + 1] = WrotePrompt
        /\ wire[i + 2] = ReadOf(get_command(GetStatus))
        /\ wire[i + 3] = WroteStatus
        /\ wire[i + 4] = WrotePrompt
        /\ sim_status = SimInitStatus

----------------------------------------------------------------------------
(* The command codec on its own: get_command, then the decoding of the     *)
(* connection loop                                                         *)

\* The variants of ATDomeCmd without a parameter, Unknown apart.
PlainCmds ==
    {Cmd(LiteralPatterns[i].cmd) : i \in 1..Len(LiteralPatterns)}

\* The azimuths encoded: every quarter of a degree from -MaxAz to MaxAz.
Azimuths == {az \in (0 - MaxAz * Hundredths)..(MaxAz * Hundredths) : az % 25 = 0}

EncodedCmds == PlainCmds \cup {MoveAz(az) : az \in Azimuths}

InitCodec == codec = [pc |-> "idle", cmd |-> Unknown, text |-> <<>>, out |-> Unknown]

\* ATDomeCmd::get_command of c.
Encode(c) ==
    /\ codec.pc = "idle"
    /\ codec' = [pc |-> "encoded", cmd |-> c, text |-> get_command(c), out |-> Unknown]

\* cmd.trim_end_matches("\r\n")
Trim ==
    /\ codec.pc = "encoded"
    /\ codec' = [codec EXCEPT !.pc = "trimmed", !.text = trim_end_matches(codec.text)]

\* atdome_cmd_regex.into_atdome_cmd(cmd_trimmed)
Decode ==
    /\ codec.pc = "trimmed"
    /\ codec' = [codec EXCEPT !.pc = "decoded", !.out = into_atdome_cmd(codec.text)]

\* The next command.
Forget ==
    /\ codec.pc = "decoded"
    /\ codec' = [pc |-> "idle", cmd |-> Unknown, text |-> <<>>, out |-> Unknown]

CodecNext ==
    \/ \E c \in EncodedCmds : Encode(c)
    \/ Trim
    \/ Decode
    \/ Forget

\* C14: what the decoder makes of the trimmed wire text of a command is that
\* command, with the same azimuth.
C14_CommandRoundTrip ==
    codec.pc = "decoded" => codec.out = codec.cmd

\* The same for the commands without a parameter and for the MoveAz to a
\* whole, non-negative number of degrees.
RoundTripWholeDegrees ==
    (codec.pc = "decoded"
        /\ (codec.cmd.cmd = "MoveAz" =>
                (codec.cmd.az >= 0 /\ codec.cmd.az % Hundredths = 0))) =>
        codec.out = codec.cmd

----------------------------------------------------------------------------
(* The status codec on its own: Status::as_string, split, make_status      *)

\* The statuses rendered: azimuths with and without a sign, move codes over
\* the range of u8, and fields the renderer does not print.
RenderedStatus ==
    {[DefaultStatus EXCEPT !.az_pos = az, !.last_azimuth_goto = goto,
                           !.move_code = code, !.high_speed = speed, !.homed = homed] :
        az \in {0 - 12, 0, 1212}, goto \in {0 - Hundredths, 0, 101 * Hundredths},
        code \in {0, AzimuthNegative, U8Max}, speed \in {0, 6 * Hundredths},
        homed \in BOOLEAN}

\* A piece no regex of the parser matches.
Junk == <<Item("this", 0, <<>>, FALSE)>>

\* The lines whose capture is converted to an integer type, and a text of
\* digits too large for that type.
TooLarge(i) ==
    IF i = 5 THEN NatText(U8Max + 1) ELSE Append(U64MaxText, "0")

IntegerLines == {3, 5, 13, 14, 22, 23, 24, 25}

InitParse ==
    parse = [pc |-> "idle", s |-> DefaultStatus, lines |-> <<>>, broken |-> {},
             out |-> Err]

\* s.as_string().split("\n")
Render(s) ==
    /\ parse.pc = "idle"
    /\ parse' = [parse EXCEPT !.pc = "lines", !.s = s, !.lines = split(as_string(s))]

\* The list is cut or filled up to n lines.
Resize(n) ==
    /\ parse.pc = "lines"
    /\ n # Len(parse.lines)
    /\ parse' = [parse EXCEPT
                    !.pc = "changed",
                    !.lines = [i \in 1..n |-> IF i <= Len(parse.lines)
                                              THEN parse.lines[i] ELSE Junk]]

\* Line i is replaced by a text no regex matches.
Garble(i) ==
    /\ parse.pc = "lines"
    /\ i \in 1..Len(parse.lines)
    /\ parse' = [parse EXCEPT !.pc = "changed", !.lines[i] = Junk,
                              !.broken = {i}]

\* The number of line i is replaced by one its type cannot hold.
Overflow(i) ==
    /\ parse.pc = "lines"
    /\ i \in IntegerLines
    /\ parse' = [parse EXCEPT !.pc = "changed", !.broken = {i},
                              !.lines[i] = <<[parse.lines[i][1] EXCEPT
                                                 !.val = TooLarge(i)]>>]

\* StatusParser::make_status on the list.
Parse ==
    /\ parse.pc \in {"lines", "changed"}
    /\ parse' = [parse EXCEPT !.pc = "parsed", !.out = make_status(parse.lines)]

\* The next status.
Discard ==
    /\ parse.pc = "parsed"
    /\ parse' = [pc |-> "idle", s |-> DefaultStatus, lines |-> <<>>, broken |-> {},
                 out |-> Err]

ParserNext ==
    \/ \E s \in RenderedStatus : Render(s)
    \/ \E n \in 0..MaxLines : Resize(n)
    \/ \E i \in 1..MaxLines : Garble(i)
    \/ \E i \in IntegerLines : Overflow(i)
    \/ Parse
    \/ Discard

----------------------------------------------------------------------------
(* Claims about the status codec                                           *)

\* The list given to the parser is the rendered block, unaltered.
AsRendered == parse.lines = split(as_string(parse.s))

Unsigned(s) == s.az_pos >= 0 /\ s.last_azimuth_goto >= 0

\* Two results of the parser are the same one.
SameResult(a, b) == a.ok = b.ok /\ (a.ok => a.v = b.v)

\* The result is the Status st.
Yields(out, st) == out.ok /\ out.v = st

\* C15: for every Status s with move_code in 0..255, parsing the lines of
\* the rendered block of s succeeds and yields the az_pos, last_azimuth_goto
\* and move_code of s and, for every other field, the constant of the renderer.
C15_StatusRoundTrip ==
    (parse.pc = "parsed" /\ AsRendered) => Yields(parse.out, Shown(parse.s))

\* The round trip of the statuses whose two azimuths carry no sign.
RoundTripUnsigned ==
    (parse.pc = "parsed" /\ AsRendered /\ Unsigned(parse.s))
        => Yields(parse.out, Shown(parse.s))

\* The list with everything from line index 26 on replaced.
Blanked(lines) == [i \in 1..Len(lines) |-> IF i > 26 THEN Junk ELSE lines[i]]

\* C16: a list of lines is accepted only when it has 27 or 28 lines: any
\* other count yields an error whatever the lines hold, and with 27 or 28
\* lines neither line index 26 nor line index 27 influences the result.
C16_LineCount ==
    parse.pc = "parsed" =>
        /\ Len(parse.lines) \notin {27, 28} => ~parse.out.ok
        /\ Len(parse.lines) \in {27, 28} =>
              /\ SameResult(parse.out, make_status(Blanked(parse.lines)))
              /\ (parse.broken \subseteq {27, 28} /\ Unsigned(parse.s))
                    => Yields(parse.out, Shown(parse.s))

\* 26 lines that all match and convert, and no more: an error.
C16_Witness ==
    /\ parse.pc = "parsed"
    /\ Len(parse.lines) = 26
    /\ parse.lines = SubSeq(split(as_string(parse.s)), 1, 26)
    /\ Unsigned(parse.s)
    /\ ~parse.out.ok

\* C17: if one of the lines 0..25 does not match its regex, or its capture
\* does not convert to the type of its field, the result is an error; a
\* Status is returned only when all 26 match and convert, and it is then
\* the whole Status of the block.
C17_AllOrNothing ==
    parse.pc = "parsed" =>
        /\ parse.broken \cap 1..26 # {} => ~parse.out.ok
        /\ parse.out.ok => /\ parse.broken \cap 1..26 = {}
                           /\ parse.out.v = Shown(parse.s)

\* A move code that is no u8 on an otherwise good block: an error.
C17_Witness ==
    /\ parse.pc = "parsed"
    /\ parse.broken = {5}
    /\ Len(parse.lines) = 28
    /\ parse.lines[5][1].val = NatText(U8Max + 1)
    /\ Unsigned(parse.s)
    /\ ~parse.out.ok

----------------------------------------------------------------------------
(* Claims about the simulator                                              *)

\* ceil(|x| / 0.12) for a target of a whole number of degrees.
CyclesBound(x) == ((Abs(x) \div F32One) * Hundredths + 11) \div 12

\* C12: after one MoveAz handled with the dome at rest at 0, and no MoveAz or
\* StopMotion since, once ceil(|x| / 0.12) cycles have run the dome is at its
\* target x with move_code 0.
C12_ConvergesInTime ==
    (sim_trace.moves = "one"
        /\ sim_trace.cycles >= CyclesBound(sim_status.last_azimuth_goto)) =>
        /\ sim_status.az_pos = sim_status.last_azimuth_goto
        /\ sim_status.move_code = 0

\* The cycle that takes c from the simulator's inbox.
Handles(c) == sim_rx # <<>> /\ Head(sim_rx) = c /\ sim_rx' = Tail(sim_rx)

\* C13: the cycle that handles a StopMotion while az_pos equals
\* last_azimuth_goto leaves every field of the status as it was; so a
\* StopMotion that follows finds the same status and leaves it again.
C13_StopAtRestChangesNothing ==
    [][(Handles(StopMotion) /\ AtRest(sim_status)) => sim_status' = sim_status]_vars

\* The last command handled was a StopMotion, the dome then at rest at the
\* target of an earlier MoveAz.
C13_Witness ==
    /\ sim_trace.last = "StopMotion"
    /\ sim_trace.rest
    /\ sim_status.az_pos = F32One
    /\ sim_status.last_azimuth_goto = F32One

\* C29: a client is accepted, and prompted, only when no connection is
\* open: the one before it has closed and everything it wrote was read; the
\* connection loop leaves a connection for accept only at its end of stream,
\* and a command reaches the simulator only from the text the loop has just
\* read from the client at hand.
C29_OneClientAtATime ==
    [][/\ n_clients' # n_clients =>
             /\ mock_pc = "accept"
             /\ ~client_open /\ client_out = <<>>
             /\ n_clients' = n_clients + 1
             /\ wire' = <<Accepted, WrotePrompt>>
       /\ (mock_pc # "accept" /\ mock_pc' = "accept") =>
             /\ mock_pc = "read"
             /\ ~client_open /\ client_out = <<>>
       /\ Len(sim_rx') > Len(sim_rx) =>
             /\ mock_pc = "read" /\ mock_pc' = "await"
             /\ client_out # <<>>
             /\ sim_rx' = Append(sim_rx,
                                 into_atdome_cmd(trim_end_matches(Head(client_out))))
             /\ UNCHANGED n_clients]_vars

\* A first client was served and has closed; the second has been accepted
\* and prompted and its command is with the simulator.
C29_Witness ==
    /\ n_clients = 2
    /\ sim_trace.last # "none"
    /\ client_open
    /\ mock_pc = "await"
    /\ sim_rx # <<>>
    /\ Len(wire) = 3
    /\ wire[1] = Accepted /\ wire[2] = WrotePrompt /\ wire[3].ev = "read"

\* C30: a cycle of the simulator takes the first command of its inbox and
\* no other, leaves the rest queued in their order, answers the command and
\* runs the kinematics once; with an empty inbox the cycle runs the
\* kinematics alone; a command that is sent joins the end of the inbox.
C30_OneCommandPerCycle ==
    [][/\ Len(sim_rx') < Len(sim_rx) =>
             /\ sim_rx' = Tail(sim_rx)
             /\ sim_status' = Kinematics(HandleCmd(sim_status, Head(sim_rx)))
             /\ sim_reply' = ReplyTo(sim_status, Head(sim_rx))
       /\ (sim_rx' = sim_rx /\ sim_status' # sim_status) =>
             /\ sim_rx = <<>>
             /\ sim_status' = Kinematics(sim_status)
       /\ Len(sim_rx') > Len(sim_rx) =>
             /\ SubSeq(sim_rx', 1, Len(sim_rx)) = sim_rx
             /\ sim_status' = sim_status]_vars

\* A MoveAz and a GetStatus were handled in two cycles that followed each
\* other (the status reported is one step from the start), and the dome has
\* moved on since with nothing in the inbox.
C30_Witness ==
    /\ sim_trace.last = "GetStatus"
    /\ sim_trace.moves = "one"
    /\ sim_reply.kind = "Status"
    /\ sim_reply.status.az_pos = F32Add(0, delta_az_per_cycle)
    /\ sim_status.az_pos > F32Add(F32Add(0, delta_az_per_cycle), delta_az_per_cycle)
    /\ sim_rx = <<>>

\* C20: a Start that completes (Standby to Disabled) has created the
\* telemetry task, and after a Disable that completes (Enabled to Disabled)
\* the state is Disabled and the task of the preceding Start, the one the
\* handle names, is no longer running.
C20_TelemetryLifecycle ==
    /\ (call.name = "start" /\ call.kind = "complete") =>
          /\ call.from = "Standby" /\ summary_state = "Disabled"
          /\ Len(telemetry_tasks) = Len(call.tasks_before) + 1
          /\ telemetry_loop_task = Len(telemetry_tasks)
          /\ telemetry_tasks[telemetry_loop_task] = "running"
    /\ (call.name = "disable" /\ call.kind = "complete") =>
          /\ call.from = "Enabled" /\ summary_state = "Disabled"
          /\ telemetry_loop_task = Len(telemetry_tasks)
          /\ telemetry_loop_task # 0
          /\ telemetry_tasks[telemetry_loop_task] = "aborted"

\* A Disable has completed and has stopped a task that was running.
C20_Witness ==
    /\ call.name = "disable" /\ call.kind = "complete"
    /\ call.handle_before # 0
    /\ call.tasks_before[call.handle_before] = "running"
    /\ telemetry_tasks[call.handle_before] = "aborted"
    /\ summary_state = "Disabled"

\* C21: when the publication of summaryState fails in a transition the
\* state admits, the handler returns an error and the summary state, the
\* telemetry task and its handle are what they were before the command.
C21_FailedPublishLeavesState ==
    (Called /\ call.from \in TableSource(call.name) /\ ~call.pub_ok) =>
        /\ call.kind = "error"
        /\ summary_state = call.from
        /\ telemetry_tasks = call.tasks_before
        /\ telemetry_loop_task = call.handle_before

\* The half of C21 the handlers keep: the failure is returned as an error.
FailedPublishIsAnError ==
    (Called /\ call.from \in TableSource(call.name) /\ ~call.pub_ok) =>
        call.kind = "error"

\* C22: an exitControl taken off the queue in Standby puts the CSC in
\* Offline and ends it: the control loop takes no further command and the
\* heartbeat task no longer runs.
C22_ExitControlTerminates ==
    (call.name = "exitControl" /\ call.from = "Standby") =>
        /\ summary_state = "Offline"
        /\ csc_pc # "running"
        /\ heartbeat.task # "running"

\* C23: after the first failed write of a heartbeat no further heartbeat is
\* written; a turn of the heartbeat task, failed or not, changes neither the
\* summary state nor the control loop, its queue and the telemetry task.
C23_HeartbeatStopsOnFailure ==
    [][/\ heartbeat.failed_in # "none" => heartbeat'.beats = heartbeat.beats
       /\ (heartbeat.task = "running" /\ heartbeat' # heartbeat) =>
             UNCHANGED <<summary_state, telemetry_loop_task, telemetry_tasks,
                         cmd_queue, csc_pc, call, csc_log>>]_vars

\* Heartbeats were written, a write failed in Standby, and start and enable
\* have been handled since.
C23_Witness ==
    /\ heartbeat.task = "finished"
    /\ heartbeat.beats > 0
    /\ heartbeat.failed_in = "Standby"
    /\ summary_state = "Enabled"
    /\ call.name = "enable" /\ call.kind = "complete"
    /\ csc_pc = "running"

\* C24: the summary state is never Fault, and it changes only in a step
\* that is the call of a lifecycle handler the state admits.
C24_NeverFault ==
    /\ [](summary_state # "Fault")
    /\ [][summary_state' # summary_state =>
            /\ call'.name \in LifecycleCommands
            /\ call'.from = summary_state
            /\ call'.from \in TableSource(call'.name)
            /\ call'.kind \in {"complete", "error"}
            /\ summary_state' = TableTarget(call'.name)]_vars

\* The heartbeat has failed, the publication of Enabled has failed, and the
\* state is Enabled.
C24_Witness ==
    /\ heartbeat.task = "finished"
    /\ call.name = "enable" /\ call.kind = "error"
    /\ summary_state = "Enabled"

\* The flag is up in the simulator's move_code.
Moving(flag) == HasBit(sim_status.move_code, byte_value(flag))

\* C18: in every status the simulator holds at the start of a cycle (the one
\* a GetStatus reports), whatever commands it has handled: if neither
\* AzimuthPositive nor AzimuthNegative is set in move_code, az_pos equals
\* last_azimuth_goto.
C18_IdleMeansAtTarget ==
    (~Moving("AzimuthPositive") /\ ~Moving("AzimuthNegative")) => AtRest(sim_status)

\* A StopMotion has been handled on the way to a target: no flag is up, and
\* the dome rests where it was stopped.
C18_Witness ==
    /\ sim_trace.last = "StopMotion"
    /\ ~sim_trace.rest
    /\ sim_status.az_pos # 0
    /\ ~Moving("AzimuthPositive") /\ ~Moving("AzimuthNegative")
    /\ AtRest(sim_status)

\* C19: the eight MoveCode flags have the eight distinct single bits 0x01,
\* 0x02, 0x04, 0x08, 0x10, 0x20, 0x40, 0x80, and the simulator's move_code
\* never holds both azimuth flags, nor the closing and the opening flag of
\* one door.
C19_ExclusiveFlags ==
    /\ \A f, g \in MoveCode : f # g => byte_value(f) # byte_value(g)
    /\ {byte_value(f) : f \in MoveCode} = {2^k : k \in 0..7}
    /\ AzimuthPositive = byte_value("AzimuthPositive")
    /\ AzimuthNegative = byte_value("AzimuthNegative")
    /\ ~(Moving("AzimuthPositive") /\ Moving("AzimuthNegative"))
    /\ ~(Moving("MainDoorClosing") /\ Moving("MainDoorOpening"))
    /\ ~(Moving("DropoutDoorClosing") /\ Moving("DropoutDoorOpening"))

\* The dome was sent back while it moved up: it steps down with one flag up.
C19_Witness ==
    /\ sim_trace.moves = "more"
    /\ sim_trace.last = "MoveAz"
    /\ sim_status.last_azimuth_goto < sim_status.az_pos
    /\ sim_status.az_pos < F32One
    /\ Moving("AzimuthPositive")
    /\ ~Moving("AzimuthNegative")

\* The status after a command other than StopMotion, as the frame of the
\* match has it: a MoveAz sets the target and nothing else, every other
\* command changes nothing.
Framed(status, c) ==
    IF c.cmd = "MoveAz" THEN [status EXCEPT !.last_azimuth_goto = F32Of(c.az)]
    ELSE status

\* The reply the simulator owes to c when it handles it in status.
Owed(status, c) == IF c = GetStatus THEN ReplyStatus(status) ELSE ReplyNone

\* Every command of the enum: the nine without a parameter, Unknown, and
\* the MoveAz the simulator is sent.
AllCmds == PlainCmds \cup {Unknown} \cup {c \in SimCmds : c.cmd = "MoveAz"}

\* C31: in the command step only MoveAz and StopMotion change the status:
\* MoveAz(new_az) sets last_azimuth_goto to new_az and nothing else;
\* GetStatus, HomeAzimuth, the six shutter and door commands and Unknown
\* change no field; GetStatus is answered with the status at the moment it
\* is handled and every other command with Reply::None.
C31_CommandFrame ==
    /\ [](\A c \in AllCmds :
            /\ c # StopMotion => HandleCmd(sim_status, c) = Framed(sim_status, c)
            /\ ReplyTo(sim_status, c) = Owed(sim_status, c))
    /\ [][\A c \in SimCmds : Handles(c) =>
            /\ c # StopMotion => sim_status' = Kinematics(Framed(sim_status, c))
            /\ sim_reply' = Owed(sim_status, c)]_vars

\* A HomeAzimuth was handled while the dome slewed to 1 degree: it was
\* answered None and the target is still 1 degree.
C31_Witness ==
    /\ sim_trace.last = "HomeAzimuth"
    /\ ~sim_trace.rest
    /\ sim_reply = ReplyNone
    /\ sim_status.last_azimuth_goto = F32One
    /\ sim_status.az_pos > 0

\* The cycle that handles a MoveAz.
HandlesMoveAz == \E c \in SimCmds : c.cmd = "MoveAz" /\ Handles(c)

\* C32: the cycle that handles a StopMotion while the dome slews leaves
\* az_pos as it was, sets last_azimuth_goto to it, lowers both azimuth flags
\* without raising any bit (no XOR on a bit that is 0) and changes nothing
\* else; from a dome at its target az_pos stays as it is in every cycle that
\* handles no MoveAz.
C32_StopWhileSlewing ==
    /\ [][(Handles(StopMotion) /\ ~AtRest(sim_status)) =>
            /\ sim_status'.az_pos = sim_status.az_pos
            /\ sim_status'.last_azimuth_goto = sim_status.az_pos
            /\ ~HasBit(sim_status'.move_code, AzimuthPositive)
            /\ ~HasBit(sim_status'.move_code, AzimuthNegative)
            /\ sim_status'.move_code <= sim_status.move_code
            /\ [sim_status' EXCEPT
                    !.last_azimuth_goto = sim_status.last_azimuth_goto,
                    !.move_code = sim_status.move_code] = sim_status]_vars
    /\ [][(AtRest(sim_status) /\ ~HandlesMoveAz) =>
            sim_status'.az_pos = sim_status.az_pos]_vars

\* The dome was stopped between two whole degrees, and a GetStatus
\* handled in a later cycle found it there, at rest with move_code 0.
C32_Witness ==
    /\ sim_trace.last = "GetStatus"
    /\ sim_trace.rest
    /\ sim_reply = ReplyStatus(sim_status)
    /\ AtRest(sim_status)
    /\ sim_status.az_pos % F32One # 0
    /\ sim_status.move_code = 0

\* A turn of the simulator loop: it takes a command, or the kinematics
\* change the status.
Cycle == (sim_rx # <<>> /\ sim_rx' = Tail(sim_rx)) \/ sim_status' # sim_status

\* The status the kinematics of the turn start from.
Mid == IF sim_rx # <<>> THEN HandleCmd(sim_status, Head(sim_rx)) ELSE sim_status

\* The step rule as it is stated: applied whenever move_code is 0,
\* AzimuthPositive or AzimuthNegative, the step being the f32 sum.
StepRule(status) ==
    IF status.move_code \in {0, AzimuthPositive, AzimuthNegative}
    THEN LET delta_az == F32Sub(status.last_azimuth_goto, status.az_pos)
         IN  IF Abs(delta_az) > delta_az_per_cycle
             THEN IF delta_az > 0
                  THEN [status EXCEPT
                          !.move_code = IF status.move_code = 0
                                        THEN AzimuthPositive ELSE status.move_code,
                          !.az_pos = F32Add(status.az_pos, delta_az_per_cycle)]
                  ELSE [status EXCEPT
                          !.move_code = IF status.move_code = 0
                                        THEN AzimuthNegative ELSE status.move_code,
                          !.az_pos = F32Sub(status.az_pos, delta_az_per_cycle)]
             ELSE [status EXCEPT !.move_code = 0,
                                 !.az_pos = status.last_azimuth_goto]
    ELSE status

\* C33: in every cycle with move_code 0, AzimuthPositive or AzimuthNegative,
\* a dome farther than 0.12 from last_azimuth_goto steps by 0.12 toward it,
\* raising the matching flag if move_code was 0; otherwise az_pos becomes
\* last_azimuth_goto and move_code becomes 0; with any other move_code az_pos
\* stays.
C33_StepRule == [][Cycle => sim_status' = StepRule(Mid)]_vars

\* The rule as the loop applies it: only with the dome away from its
\* target; at the target the kinematics change nothing, a flag that is still
\* up included.
StepRuleAwayFromTarget ==
    /\ [][(Cycle /\ ~AtRest(Mid)) => sim_status' = StepRule(Mid)]_vars
    /\ [][(Cycle /\ AtRest(Mid)) => sim_status' = Mid]_vars

\* The telemetry tasks spawned so far that are still running.
RunningTasks ==
    {i \in 1..Len(telemetry_tasks) : telemetry_tasks[i] = "running"}

\* C34: at most one telemetry task runs at any time, whatever the commands
\* handled so far.
C34_OneTelemetryTask == Cardinality(RunningTasks) <= 1

\* C35: in Enabled a telemetry task is running, and in Standby and in
\* Offline none is.
C35_TelemetryFollowsState ==
    /\ summary_state = "Enabled" => RunningTasks # {}
    /\ summary_state \in {"Standby", "Offline"} => RunningTasks = {}

\* C36: the direction flag agrees with the motion: a cycle in which az_pos
\* steps up ends with AzimuthPositive set and AzimuthNegative clear, and a
\* cycle in which it steps down ends with AzimuthNegative set and
\* AzimuthPositive clear, also when the target has changed sides during the
\* slew.
C36_FlagAgreesWithMotion ==
    [][/\ (sim_status'.az_pos > sim_status.az_pos /\ ~AtRest(sim_status')) =>
            /\ HasBit(sim_status'.move_code, AzimuthPositive)
            /\ ~HasBit(sim_status'.move_code, AzimuthNegative)
       /\ (sim_status'.az_pos < sim_status.az_pos /\ ~AtRest(sim_status')) =>
            /\ HasBit(sim_status'.move_code, AzimuthNegative)
            /\ ~HasBit(sim_status'.move_code, AzimuthPositive)]_vars

\* The flag agrees with the motion as long as the simulator has handled a
\* single MoveAz and no StopMotion.
FlagAgreesOnFirstMove ==
    [][sim_trace'.moves = "one" =>
        /\ (sim_status'.az_pos > sim_status.az_pos /\ ~AtRest(sim_status')) =>
              sim_status'.move_code = AzimuthPositive
        /\ (sim_status'.az_pos < sim_status.az_pos /\ ~AtRest(sim_status')) =>
              sim_status'.move_code = AzimuthNegative]_vars

\* C37: decoding is total: whatever text the connection loop reads, the
\* decoder returns a command and the mock controller goes on.
C37_DecodingIsTotal == mock_pc # "panicked"

\* Every text but those whose leftmost " MV" has no digit before it decodes
\* to a command.
DecodingIsTotalWithDigits ==
    \A t \in ClientTexts :
        (into_atdome_cmd(t) = Panic) <=>
            (get_match_index(t) = 0 /\ MoveAzCapture(t) = <<>>)

\* C38: the mock controller outlives its clients: whatever a client does,
\* run_mock_controller does not return and the simulator task goes on.
C38_OutlivesClients == mock_pc # "returned"

----------------------------------------------------------------------------
(* Specifications                                                          *)

Init == InitCsc /\ InitSession /\ InitMock /\ InitCodec /\ InitParse

\* The lifecycle handlers called one after the other.
HandlerSpec == Init /\ [][HandlerNext /\ UNCHANGED <<link_vars, mock_vars, pure_vars>>]_vars

\* The supervisor: start, the command readers and the control loop.
CscSpec == Init /\ [][CscNext /\ UNCHANGED <<link_vars, mock_vars, pure_vars>>]_vars

\* The device session and its controller.
SessionSpec == Init /\ [][SessionNext /\ UNCHANGED <<csc_vars, link, mock_vars, pure_vars>>]_vars

\* The mock controller, its simulator task and its clients.
MockSpec == Init /\ [][MockNext /\ UNCHANGED <<csc_vars, link_vars, pure_vars>>]_vars

\* The simulator task on its own, fed the commands a connection loop sends.
SimSpec == Init /\ [][SimNext /\ UNCHANGED <<csc_vars, link_vars, pure_vars>>]_vars

\* The command codec on its own.
CodecSpec == Init /\ [][CodecNext /\ UNCHANGED <<csc_vars, link_vars, mock_vars, parse>>]_vars

\* The status codec on its own.
ParserSpec == Init /\ [][ParserNext /\ UNCHANGED <<csc_vars, link_vars, mock_vars, codec>>]_vars

\* The device session on a link that delivers malformed bytes and end of stream.
LinkSpec == Init /\ [][LinkNext /\ UNCHANGED <<csc_vars, mock_vars, pure_vars>>]_vars

\* The simulator task with an inbox that holds several commands.
QueueSpec == Init /\ [][QueueNext /\ UNCHANGED <<csc_vars, link_vars, pure_vars>>]_vars

====
